---- MODULE Spec2Model ----
(***************************************************************************)
(* Model of the pyramid-jsonapi request-to-query-to-document engine:       *)
(* CollectionViewBase (collection_view_base.py) and the view factory       *)
(* (__init__.py).                                                          *)
(*                                                                         *)
(* Text is modelled as a sequence of tokens: the punctuation the code      *)
(* splits on ("," "." "-" ":" "[" "]" ";" "*" "%"), decimal digits,        *)
(* single letters (attribute values) and whole identifiers (field names).  *)
(***************************************************************************)
EXTENDS Integers, Sequences, FiniteSets, TLC

VARIABLES
    max_limit,      \* view.max_limit      (__init__.py, create_resource)
    default_limit,  \* view.default_limit  (__init__.py, create_resource)
    db,             \* the backing store: table name -> set of rows
    request,        \* the request being handled: headers and query params
    phase,          \* "idle" | "pending" | "done"
    response,       \* the answer to the request (status, document)
    route,          \* the view callable and request.matchdict of the request
    json_body,      \* request.json_body['data'] of a write request
    callbacks,      \* view.callbacks: model -> hook point -> hooks in order
    allowed_fields, \* view.allowed_fields: model -> set of field names
    forbidden_objects,  \* the (type, id) pairs view.allowed_object rejects
    required_columns,   \* the store's schema: model -> its NOT NULL columns
    db_session,     \* the rows self.get_dbsession holds: the store's rows and
                    \* the changes its transaction has not yet ended
    lru_cache,      \* entries of the functools.lru_cache tables of the view
                    \* base class whose key is the request received last or
                    \* a view instance made for it
    exposed_fields  \* view.exposed_fields: model -> the expose_fields
                    \* argument of create_resource

vars == <<max_limit, default_limit, db, request, phase, response,
          route, json_body, callbacks, allowed_fields, forbidden_objects,
          required_columns, db_session, lru_cache, exposed_fields>>

\* what create_resource and the application's configuration fix at start-up
settings == <<max_limit, default_limit, callbacks, allowed_fields, forbidden_objects,
              required_columns, exposed_fields>>

(***************************************************************************)
(* Bounds of the model.                                                    *)
(***************************************************************************)
\* largest integer a client sends in page[limit] / page[offset]
MaxPageParam == 2
\* largest configured paging.max_limit (default_limit ranges one above it)
MaxSetting == 2
\* largest number of header fields plus query parameters in one request
MaxParams == 2

(***************************************************************************)
(* Python text primitives.                                                 *)
(***************************************************************************)
Digits == <<"0", "1", "2", "3", "4", "5", "6", "7", "8", "9">>

DigitVal(c) == CHOOSE d \in 0..9 : Digits[d + 1] = c

IsDigit(c) == \E d \in 0..9 : Digits[d + 1] = c

\* str(i) for an integer i
RECURSIVE str(_)
str(i) ==
    IF i < 0 THEN <<"-">> \o str(-i)
    ELSE IF i < 10 THEN <<Digits[i + 1]>>
    ELSE str(i \div 10) \o <<Digits[(i % 10) + 1]>>

RECURSIVE DigitsVal(_)
DigitsVal(s) ==
    IF Len(s) = 0 THEN 0
    ELSE 10 * DigitsVal(SubSeq(s, 1, Len(s) - 1)) + DigitVal(s[Len(s)])

AllDigits(s) == Len(s) > 0 /\ \A k \in 1..Len(s) : IsDigit(s[k])

\* int(s) for a text s: [ok |-> FALSE] stands for ValueError
int(s) ==
    IF AllDigits(s) THEN [ok |-> TRUE, val |-> DigitsVal(s)]
    ELSE IF Len(s) > 1 /\ s[1] = "-" /\ AllDigits(Tail(s))
         THEN [ok |-> TRUE, val |-> 0 - DigitsVal(Tail(s))]
    ELSE [ok |-> FALSE, val |-> 0]

\* s.split(sep): the pieces of s between occurrences of the token sep
RECURSIVE split(_, _)
split(s, sep) ==
    IF \A k \in 1..Len(s) : s[k] # sep THEN <<s>>
    ELSE LET i == CHOOSE k \in 1..Len(s) :
                      s[k] = sep /\ \A j \in 1..(k - 1) : s[j] # sep
         IN  <<SubSeq(s, 1, i - 1)>> \o split(SubSeq(s, i + 1, Len(s)), sep)

\* sep.join(parts)
RECURSIVE join(_, _)
join(parts, sep) ==
    IF Len(parts) = 0 THEN <<>>
    ELSE IF Len(parts) = 1 THEN parts[1]
    ELSE parts[1] \o <<sep>> \o join(Tail(parts), sep)

\* Python's floor division a // b (b # 0)
floordiv(a, b) ==
    IF b > 0 THEN a \div b
    ELSE (0 - a) \div (0 - b)

min(a, b) == IF a <= b THEN a ELSE b

max(a, b) == IF a >= b THEN a ELSE b

SeqToSet(s) == {s[k] : k \in 1..Len(s)}

\* all orderings of a finite set as sequences without repetition
Perms(S) ==
    {s \in [1..Cardinality(S) -> S] : \A i, j \in 1..Cardinality(S) : i # j => s[i] # s[j]}

(***************************************************************************)
(* The resource schema: what collection_view_factory reads off the models. *)
(* Two models, blogs and people; blogs.owner is many-to-one to people and  *)
(* people.blogs is the one-to-many reverse.                                *)
(***************************************************************************)
Models == {"blogs", "people"}

\* sqlalchemy.inspect(model).mapper.columns
columns ==
    [m \in Models |->
        IF m = "blogs" THEN {"id", "title", "owner_id"} ELSE {"id", "name"}]

\* columns that carry a foreign key
foreign_key_columns ==
    [m \in Models |-> IF m = "blogs" THEN {"owner_id"} ELSE {}]

\* sqlalchemy.inspect(model).mapper.relationships
mapper_relationships ==
    [m \in Models |->
        IF m = "blogs"
        THEN [r \in {"owner"} |->
                 [target |-> "people", direction |-> "MANYTOONE",
                  local |-> "owner_id", remote |-> "id"]]
        ELSE [r \in {"blogs"} |->
                 [target |-> "blogs", direction |-> "ONETOMANY",
                  local |-> "id", remote |-> "owner_id"]]]

\* collection_view.key_column.name
key_column == [m \in Models |-> "id"]

\* expose_fields is None or key in expose_fields; the argument is held as
\* [is_none, keys]
exposed(m, key) == exposed_fields[m].is_none \/ key \in exposed_fields[m].keys

\* create_resource called without expose_fields for every model
ExposeAll == [m \in Models |-> [is_none |-> TRUE, keys |-> {}]]

\* collection_view.attributes: exposed columns, neither key nor foreign key
attributes ==
    [m \in Models |->
        {c \in columns[m] : /\ c # key_column[m]
                            /\ c \notin foreign_key_columns[m]
                            /\ exposed(m, c)}]

\* collection_view.relationships: the exposed relationships of the mapper
relationships ==
    [m \in Models |-> {key \in DOMAIN mapper_relationships[m] : exposed(m, key)}]

\* the model class of the view the request is routed to
ViewModel == route.view

(***************************************************************************)
(* The rows in the store when the service starts.  owner_id = NULL is a    *)
(* blog without owner.                                                     *)
(***************************************************************************)
NULL == 0

InitialRows ==
    [m \in Models |->
        IF m = "blogs"
        THEN {[id |-> 1, title |-> <<"a", "b">>, owner_id |-> 1],
              [id |-> 2, title |-> <<"b">>,      owner_id |-> NULL],
              [id |-> 3, title |-> <<"a", "b">>, owner_id |-> 2],
              [id |-> 4, title |-> <<"A", "b">>, owner_id |-> 1]}
        ELSE {[id |-> 1, name |-> <<"b">>],
              [id |-> 2, name |-> <<"a", "b">>]}]

(***************************************************************************)
(* Requests: header fields and query parameters a client can send.         *)
(***************************************************************************)
PageValues == {str(i) : i \in (0 - 1)..MaxPageParam}

LimitParams == {<<"param", <<"page", "[", "limit", "]">>, v>> : v \in PageValues \cup {<<"x">>}}

OffsetParams == {<<"param", <<"page", "[", "offset", "]">>, v>> : v \in PageValues}

SortValues ==
    {<<"title">>, <<"-", "title">>, <<"owner", ".", "name">>, <<"owner">>,
     <<>>, <<"bogus">>, <<"title", ",", "-", "id">>}

SortParams == {<<"param", <<"sort">>, v>> : v \in SortValues}

IncludeValues ==
    {<<"owner">>, <<"owner", ".", "blogs">>, <<"owner", ".", "bogus", ".", "blogs">>,
     <<"bogus">>, <<"title", ",", "owner">>, <<>>}

IncludeParams == {<<"param", <<"include">>, v>> : v \in IncludeValues}

FilterOperators ==
    {"eq", "ne", "lt", "gt", "le", "ge", "startswith", "endswith", "contains", "like", "ilike"}

FilterKey(colspec, op) == <<"filter", "[">> \o colspec \o <<":", op, "]">>

FilterParams ==
    {<<"param", FilterKey(<<"title">>, op), <<"a", "b">>>> : op \in FilterOperators \cup {"bogus"}}
    \cup {<<"param", FilterKey(<<"title">>, "like"), <<"a", "*">>>>,
          <<"param", FilterKey(<<"title">>, "gt"), <<"b">>>>,
          <<"param", FilterKey(<<"owner", ".", "name">>, "eq"), <<"b">>>>,
          <<"param", FilterKey(<<"bogus">>, "eq"), <<"b">>>>,
          <<"param", FilterKey(<<"bogus">>, "bogus"), <<"b">>>>,
          <<"param", <<"filter", "[", "title", "]">>, <<"b">>>>}

HeaderFields ==
    {<<"header", <<"content-type">>, <<"application/vnd.api+json", ";", "charset=utf-8">>>>,
     <<"header", <<"content-type">>, <<"application/vnd.api+json">>>>,
     <<"header", <<"accept">>, <<"application/vnd.api+json;ext=x">>>>,
     <<"header", <<"accept">>, <<"text/html", ",", "application/vnd.api+json">>>>}

RequestItems ==
    LimitParams \cup OffsetParams \cup SortParams \cup IncludeParams
    \cup FilterParams \cup HeaderFields

\* a request names each header field and each parameter at most once
RECURSIVE RequestsOfSize(_)
RequestsOfSize(n) ==
    IF n = 0 THEN {{}}
    ELSE LET smaller == RequestsOfSize(n - 1)
         IN  smaller \cup
             {r \cup {i} : r \in smaller,
                           i \in RequestItems}

WellKeyed(r) == \A x, y \in r : (x[1] = y[1] /\ x[2] = y[2]) => x = y

Requests == {r \in RequestsOfSize(MaxParams) : WellKeyed(r)}

\* request.params.get(key, default) / request.headers.get(name, default)
HasItem(req, kind, key) == \E x \in req : x[1] = kind /\ x[2] = key

ItemValue(req, kind, key) == (CHOOSE x \in req : x[1] = kind /\ x[2] = key)[3]

\* request.params.keys()
ParamKeys(req) == {x[2] : x \in {y \in req : y[1] = "param"}}

(***************************************************************************)
(* collection_query_info: the parsed, structured query description.        *)
(***************************************************************************)
\* re.match(r'(.*?)\[(.*?)\]', p): lazy groups, so the first "[" and the
\* first "]" after it delimit group 2
re_match(p) ==
    IF \E i, j \in 1..Len(p) : i < j /\ p[i] = "[" /\ p[j] = "]"
    THEN LET i == CHOOSE k \in 1..Len(p) :
                      p[k] = "[" /\ \A l \in 1..(k - 1) : p[l] # "["
             j == CHOOSE k \in (i + 1)..Len(p) :
                      p[k] = "]" /\ \A l \in (i + 1)..(k - 1) : p[l] # "]"
         IN  [matched |-> TRUE, group1 |-> SubSeq(p, 1, i - 1),
              group2 |-> SubSeq(p, i + 1, j - 1)]
    ELSE [matched |-> FALSE, group1 |-> <<>>, group2 |-> <<>>]

\* the loop over sort_param.split(','): one key_info per sort key
sort_key_infos(sort_param) ==
    LET keys == split(sort_param, ",")
    IN  [k \in 1..Len(keys) |->
            IF Len(keys[k]) > 0 /\ keys[k][1] = "-"
            THEN [key |-> Tail(keys[k]), ascending |-> FALSE]
            ELSE [key |-> keys[k], ascending |-> TRUE]]

\* the parameters whose name matches "filter[...]"
filter_params(req) ==
    {p \in ParamKeys(req) : re_match(p).matched /\ re_match(p).group1 = <<"filter">>}

\* the parameters whose name matches "page[...]"
page_params(req) ==
    {p \in ParamKeys(req) : re_match(p).matched /\ re_match(p).group1 = <<"page">>}

\* page[limit] stored as requested, without the clamp to max_limit
page_limit_unclamped(requested) == requested

\* page[limit] as stored in the query info: min(max_limit, int(...))
page_limit(requested) == min(max_limit, requested)

collection_query_info(req) ==
    LET has_limit  == HasItem(req, "param", <<"page", "[", "limit", "]">>)
        has_offset == HasItem(req, "param", <<"page", "[", "offset", "]">>)
        limit_int  == IF has_limit
                      THEN int(ItemValue(req, "param", <<"page", "[", "limit", "]">>))
                      ELSE [ok |-> TRUE, val |-> default_limit]
        offset_int == IF has_offset
                      THEN int(ItemValue(req, "param", <<"page", "[", "offset", "]">>))
                      ELSE [ok |-> TRUE, val |-> 0]
        sort_param == IF HasItem(req, "param", <<"sort">>)
                      THEN ItemValue(req, "param", <<"sort">>)
                      ELSE <<key_column[ViewModel]>>
        \* colspec, op = match.group(2).split(':') needs exactly two pieces
        unpackable == \A p \in filter_params(req) :
                          Len(split(re_match(p).group2, ":")) = 2
    IN  IF ~limit_int.ok \/ ~offset_int.ok \/ ~unpackable
        THEN [ok |-> FALSE, error |-> "ValueError",
              limit |-> 0, offset |-> 0, sort |-> <<>>, sort_keys |-> <<>>,
              filters |-> {}, page |-> {}]
        ELSE [ok |-> TRUE, error |-> "",
              limit |-> page_limit(limit_int.val),
              offset |-> offset_int.val,
              sort |-> sort_param,
              sort_keys |-> sort_key_infos(sort_param),
              filters |->
                  {[p |-> p,
                    colspec |-> split(split(re_match(p).group2, ":")[1], "."),
                    op |-> split(re_match(p).group2, ":")[2],
                    value |-> ItemValue(req, "param", p)] : p \in filter_params(req)},
              page |->
                  {<<re_match(p).group2, ItemValue(req, "param", p)>> : p \in page_params(req)}]

(***************************************************************************)
(* Include paths.                                                          *)
(***************************************************************************)
\* a path segment names a relationship of the view's model
IsRelationshipName(model, name) == Len(name) = 1 /\ name[1] \in relationships[model]

\* the view reached through relationship name: view_instance(rel.mapper.class_)
view_instance(model, name) == mapper_relationships[model][name[1]].target

\* the walk that does not carry tainted on to the following segments
RECURSIVE bad_include_walk_forgetful(_, _, _, _)
bad_include_walk_forgetful(segments, k, curview, tainted) ==
    IF k > Len(segments) THEN {}
    ELSE IF IsRelationshipName(curview, segments[k])
         THEN bad_include_walk_forgetful(segments, k + 1,
                                         view_instance(curview, segments[k]), FALSE)
         ELSE {join(SubSeq(segments, 1, k), ".")}
              \cup bad_include_walk_forgetful(segments, k + 1, curview, FALSE)

\* the inner loop of bad_include_paths over the segments of one path,
\* from segment k on, with the loop's curview and tainted
RECURSIVE bad_include_walk(_, _, _, _)
bad_include_walk(segments, k, curview, tainted) ==
    IF k > Len(segments) THEN {}
    ELSE LET curname == join(SubSeq(segments, 1, k), ".")
         IN  IF tainted
             THEN {curname} \cup bad_include_walk(segments, k + 1, curview, TRUE)
             ELSE IF IsRelationshipName(curview, segments[k])
                  THEN bad_include_walk(segments, k + 1,
                                        view_instance(curview, segments[k]), FALSE)
                  ELSE {curname} \cup bad_include_walk(segments, k + 1, curview, TRUE)

bad_include_paths(req) ==
    IF ~HasItem(req, "param", <<"include">>) THEN {}
    ELSE LET paths == split(ItemValue(req, "param", <<"include">>), ",")
         IN  UNION {bad_include_walk(split(paths[i], "."), 1, ViewModel, FALSE) :
                        i \in 1..Len(paths)}

\* every requested name and each of its names one relationship further
requested_include_names_one_further(req) ==
    IF ~HasItem(req, "param", <<"include">>) THEN {}
    ELSE LET paths == split(ItemValue(req, "param", <<"include">>), ",")
             names == UNION {{join(SubSeq(split(paths[i], "."), 1, k), ".") :
                                 k \in 1..Len(split(paths[i], "."))} : i \in 1..Len(paths)}
         IN  names \cup {n \o <<".", r>> : n \in names, r \in {"owner", "blogs"}}

requested_include_names(req) ==
    IF ~HasItem(req, "param", <<"include">>) THEN {}
    ELSE LET paths == split(ItemValue(req, "param", <<"include">>), ",")
         IN  UNION {{join(SubSeq(split(paths[i], "."), 1, k), ".") :
                        k \in 1..Len(split(paths[i], "."))} : i \in 1..Len(paths)}

(***************************************************************************)
(* Media type checks of the jsonapi_view decorator.                        *)
(***************************************************************************)
\* media types a.startswith('application/vnd.api') holds for
VndApiTypes == {"application/vnd.api+json", "application/vnd.api+json;ext=x"}

header(req, name) ==
    IF HasItem(req, "header", name) THEN ItemValue(req, "header", name) ELSE <<>>

\* len(cth) > 1: the content type carries media type parameters
media_type_params(req) == Len(split(header(req, <<"content-type">>), ";")) > 1

jsonapi_accepts(req) ==
    {a \in SeqToSet(split(header(req, <<"accept">>), ",")) :
        Len(a) = 1 /\ a[1] \in VndApiTypes}

not_acceptable(req) ==
    jsonapi_accepts(req) # {} /\ <<"application/vnd.api+json">> \notin jsonapi_accepts(req)

(***************************************************************************)
(* The store's comparison and pattern operators on column values.          *)
(***************************************************************************)
StringColumns == {"title", "name"}

\* the characters of the model in code point order
CodePoints == <<"%", "*", "A", "a", "b">>

ord(c) == CHOOSE k \in 1..Len(CodePoints) : CodePoints[k] = c

lower(s) == [k \in 1..Len(s) |-> IF s[k] = "A" THEN "a" ELSE s[k]]

RECURSIVE StrLess(_, _)
StrLess(s, t) ==
    IF Len(t) = 0 THEN FALSE
    ELSE IF Len(s) = 0 THEN TRUE
    ELSE IF s[1] = t[1] THEN StrLess(Tail(s), Tail(t))
    ELSE ord(s[1]) < ord(t[1])

ValueLess(u, v, col) == IF col \in StringColumns THEN StrLess(u, v) ELSE u < v

\* SQL LIKE: "%" matches any run of characters
RECURSIVE Like(_, _)
Like(s, pattern) ==
    IF Len(pattern) = 0 THEN Len(s) = 0
    ELSE IF pattern[1] = "%"
         THEN Like(s, Tail(pattern)) \/ (Len(s) > 0 /\ Like(Tail(s), pattern))
         ELSE Len(s) > 0 /\ s[1] = pattern[1] /\ Like(Tail(s), Tail(pattern))

\* re.sub(r'\*', '%', val)
star_to_percent(val) == [k \in 1..Len(val) |-> IF val[k] = "*" THEN "%" ELSE val[k]]

\* the clause op_func(val) of query_add_filtering, evaluated on column value v
Compare(v, op, val, col) ==
    CASE op = "eq" -> v = val
      [] op = "ne" -> v # val
      [] op = "lt" -> ValueLess(v, val, col)
      [] op = "gt" -> ValueLess(val, v, col)
      [] op = "le" -> ~ValueLess(val, v, col)
      [] op = "ge" -> ~ValueLess(v, val, col)
      [] op = "startswith" -> Like(v, val \o <<"%">>)
      [] op = "endswith" -> Like(v, <<"%">> \o val)
      [] op = "contains" -> Like(v, <<"%">> \o val \o <<"%">>)
      [] op = "like" -> Like(v, star_to_percent(val))
      [] op = "ilike" -> Like(lower(v), lower(star_to_percent(val)))

(***************************************************************************)
(* Query construction: query_add_sorting and query_add_filtering.          *)
(* A query is the joins, the AND-ed filter clauses and the order_by list   *)
(* added to session.query(model), or the exception raised on the way.      *)
(***************************************************************************)
ModelAttributeNames(model) == columns[model] \cup DOMAIN mapper_relationships[model]

\* getattr(model, name) succeeds
HasModelAttribute(model, name) == Len(name) = 1 /\ name[1] \in ModelAttributeNames(model)

IsRelationshipProperty(model, name) == name[1] \in DOMAIN mapper_relationships[model]

EmptyQuery == [error |-> "", status |-> 200, join |-> {}, where |-> {}, order_by |-> <<>>]

FailedQuery(status, error) ==
    [error |-> error, status |-> status, join |-> {}, where |-> {}, order_by |-> <<>>]

\* main_key of one sort key: 'id' stands in for the key column
main_key(key_info) ==
    LET sort_keys == split(key_info.key, ".")
    IN  IF sort_keys[1] = <<"id">> THEN <<key_column[ViewModel]>> ELSE sort_keys[1]

\* sub_key of a sort key on a relationship: sort_keys[1], default the
\* target's key column
sub_key(key_info) ==
    LET sort_keys == split(key_info.key, ".")
    IN  IF Len(sort_keys) >= 2 THEN sort_keys[2]
        ELSE <<key_column[view_instance(ViewModel, main_key(key_info))]>>

\* the getattr calls of the sorting loop succeed for this key
SortKeyResolves(key_info) ==
    /\ HasModelAttribute(ViewModel, main_key(key_info))
    /\ IsRelationshipProperty(ViewModel, main_key(key_info)) =>
           HasModelAttribute(view_instance(ViewModel, main_key(key_info)), sub_key(key_info))

\* the order_by clause one sort key adds
order_clause(key_info) ==
    IF IsRelationshipProperty(ViewModel, main_key(key_info))
    THEN [rel |-> main_key(key_info)[1], col |-> sub_key(key_info)[1],
          ascending |-> key_info.ascending]
    ELSE [rel |-> "", col |-> main_key(key_info)[1], ascending |-> key_info.ascending]

\* the relationships the sorting loop joins to the query
sort_joins(sort_keys) ==
    {main_key(sort_keys[k])[1] :
        k \in {i \in 1..Len(sort_keys) : IsRelationshipProperty(ViewModel, main_key(sort_keys[i]))}}

query_add_sorting(q, qinfo) ==
    IF \E k \in 1..Len(qinfo.sort_keys) : ~SortKeyResolves(qinfo.sort_keys[k])
    THEN FailedQuery(500, "AttributeError")
    ELSE [q EXCEPT !.join = sort_joins(qinfo.sort_keys),
                   !.order_by = [k \in 1..Len(qinfo.sort_keys) |->
                                    order_clause(qinfo.sort_keys[k])]]

\* the filtering loop from the k-th filter on, filters in parameter order
RECURSIVE filtering_loop(_, _, _)
filtering_loop(q, filters, k) ==
    IF k > Len(filters) THEN q
    ELSE LET finfo == filters[k]
         IN  IF ~HasModelAttribute(ViewModel, finfo.colspec[1])
             THEN FailedQuery(500, "AttributeError")
             ELSE IF ~(Len(finfo.op) = 1 /\ finfo.op[1] \in FilterOperators)
             THEN FailedQuery(400, "No such filter operator")
             ELSE IF IsRelationshipProperty(ViewModel, finfo.colspec[1])
             \* the TODO branch: op_func is the relationship's comparator and
             \* op_func(val) cannot compare a relationship with a text value
             THEN FailedQuery(500, "ComparatorError")
             ELSE filtering_loop(
                      [q EXCEPT !.where = @ \cup {[col |-> finfo.colspec[1][1],
                                                    op |-> finfo.op[1],
                                                    value |-> finfo.value]}],
                      filters, k + 1)

query_add_filtering(q, filters) == filtering_loop(q, filters, 1)

(***************************************************************************)
(* Query execution by the store.                                           *)
(***************************************************************************)
\* the rows of the relationship's target that the join condition pairs with x
JoinTargets(x, r) ==
    LET rel == mapper_relationships[ViewModel][r]
    IN  {y \in db[rel.target] : x[rel.local] = y[rel.remote]}

\* FROM model JOIN ... : one result row per combination of a model row with
\* a matching target row of every joined relationship (inner joins)
JoinedRows(q) ==
    UNION {{[row |-> x, rel |-> f] :
               f \in {g \in [q.join -> UNION {JoinTargets(x, r) : r \in q.join}] :
                         \A r \in q.join : g[r] \in JoinTargets(x, r)}} :
           x \in db[ViewModel]}

\* ... WHERE clause AND clause ...
MatchingRows(q) ==
    {j \in JoinedRows(q) :
        \A c \in q.where : Compare(j.row[c.col], c.op, c.value, c.col)}

\* q.count()
count_rows(q) == Cardinality(MatchingRows(q))

OrderValue(j, clause) ==
    IF clause.rel = "" THEN j.row[clause.col] ELSE j.rel[clause.rel][clause.col]

\* the ORDER BY list puts a strictly before b
OrderedBefore(a, b, order_by) ==
    \E k \in 1..Len(order_by) :
        /\ \A l \in 1..(k - 1) : OrderValue(a, order_by[l]) = OrderValue(b, order_by[l])
        /\ IF order_by[k].ascending
           THEN ValueLess(OrderValue(a, order_by[k]), OrderValue(b, order_by[k]), order_by[k].col)
           ELSE ValueLess(OrderValue(b, order_by[k]), OrderValue(a, order_by[k]), order_by[k].col)

\* every sequence the store may return for the query without OFFSET/LIMIT:
\* ties in the ORDER BY list come in any order
OrderedResults(q) ==
    {s \in Perms(MatchingRows(q)) :
        \A i, j \in 1..Len(s) : i < j => ~OrderedBefore(s[j], s[i], q.order_by)}

\* OFFSET o LIMIT l applied to a result sequence (o >= 0, l >= 0)
Window(s, o, l) ==
    IF o >= Len(s) \/ l = 0 THEN <<>>
    ELSE SubSeq(s, o + 1, min(Len(s), o + l))

\* a store that accepts negative values reads a negative OFFSET as 0 and a
\* negative LIMIT as no limit
LenientWindow(s, o, l) ==
    Window(s, max(o, 0), IF l < 0 THEN Len(s) ELSE l)

(***************************************************************************)
(* Documents.  A Python dict is a function from its keys, a list is a      *)
(* sequence, None is a value of its own.                                   *)
(***************************************************************************)
None == [null |-> TRUE]

\* d[k] = v on a dict
Put(d, k, v) == [x \in DOMAIN d \cup {k} |-> IF x = k THEN v ELSE d[x]]

\* the indexes in S in ascending order
RECURSIVE Ascending(_)
Ascending(S) ==
    IF S = {} THEN <<>>
    ELSE LET m == CHOOSE x \in S : \A y \in S : x <= y
         IN  <<m>> \o Ascending(S \ {m})

(***************************************************************************)
(* Sparse fieldsets.  A field name in a parameter is text: one token.      *)
(***************************************************************************)
fields_param(view) == <<"fields", "[", view, "]">>

requested_field_names(view, req) ==
    IF ~HasItem(req, "param", fields_param(view))
    THEN {<<k>> : k \in attributes[view] \cup relationships[view]}
    ELSE IF ItemValue(req, "param", fields_param(view)) = <<>> THEN {}
    ELSE SeqToSet(split(ItemValue(req, "param", fields_param(view)), ","))

requested_attributes(view, req) ==
    {k \in attributes[view] : <<k>> \in requested_field_names(view, req)}

requested_relationships(view, req) ==
    {k \in relationships[view] : <<k>> \in requested_field_names(view, req)}

(***************************************************************************)
(* Callbacks.  A hook is named; mark_x, mark_y, add_secret and             *)
(* replace_members stand for callbacks of the application: a mark appends  *)
(* its letter to meta.trace of the payload, add_secret adds the attribute  *)
(* "secret" to an object, replace_members rewrites the resource            *)
(* identifiers of a relationships payload.                                 *)
(***************************************************************************)
HookPoints ==
    {"after_serialise_identifier", "after_serialise_object", "after_get",
     "after_collection_get", "before_relationships_patch"}

\* an allowed_object that rejects nothing
allowed_object_everything(view, obj) == TRUE

\* view.allowed_object(obj), as the application overrides it
allowed_object(view, obj) == <<obj.type, obj.id>> \notin forbidden_objects

\* forbidden_fields holding only the names taken out of the object
acso_after_serialise_object_stripped_only(view, obj) ==
    IF allowed_object(view, obj)
    THEN LET allowed == allowed_fields[view]
             atts == [n \in DOMAIN obj.attributes \cap allowed |-> obj.attributes[n]]
             rels == [n \in DOMAIN obj.relationships \cap allowed |-> obj.relationships[n]]
             forbidden == {<<n>> : n \in (DOMAIN obj.attributes \cup DOMAIN obj.relationships)
                                            \ allowed}
         IN  Put(Put(Put(obj, "attributes", atts), "relationships", rels),
                 "meta", [forbidden_fields |-> forbidden])
    ELSE [type |-> obj.type, id |-> obj.id,
          meta |-> [errors |-> <<[code |-> 403, title |-> "Forbidden",
                                  detail |-> <<obj.type, obj.id>>]>>]]

acso_after_serialise_object(view, obj) ==
    IF allowed_object(view, obj)
    THEN LET allowed == allowed_fields[view]
             has_atts == "attributes" \in DOMAIN obj
             has_rels == "relationships" \in DOMAIN obj
             atts == [n \in DOMAIN obj.attributes \cap allowed |-> obj.attributes[n]]
             rels == [n \in DOMAIN obj.relationships \cap allowed |-> obj.relationships[n]]
             forbidden ==
                 (IF has_atts THEN {<<n>> : n \in DOMAIN obj.attributes \ allowed} ELSE {})
                 \cup (IF has_rels
                       THEN {<<n>> : n \in DOMAIN obj.relationships \ allowed} ELSE {})
                 \cup {field \in requested_field_names(view, request) :
                          field \notin {<<n>> : n \in allowed}}
             obj1 == IF has_atts THEN Put(obj, "attributes", atts) ELSE obj
             obj2 == IF has_rels THEN Put(obj1, "relationships", rels) ELSE obj1
             meta == IF "meta" \in DOMAIN obj THEN obj.meta ELSE <<>>
         IN  Put(obj2, "meta", Put(meta, "forbidden_fields", forbidden))
    ELSE [type |-> obj.type, id |-> obj.id,
          meta |-> [errors |-> <<[code |-> 403, title |-> "Forbidden",
                                  detail |-> <<obj.type, obj.id>>]>>]]

\* raise HTTPForbidden: the payload the exception leaves
Raise(status) == [raised |-> status]

Raised(payload) == "raised" \in DOMAIN payload

\* an after_get hook that lets every document pass
acso_after_get_silent(view, ret) == ret

acso_after_get(view, ret) ==
    LET obj == ret.data
    IN  IF "meta" \in DOMAIN obj /\ "errors" \in DOMAIN obj.meta
        THEN IF \E k \in 1..Len(obj.meta.errors) : obj.meta.errors[k].code = 403
             THEN Raise(403) ELSE ret
        ELSE ret

\* a callback of the application that records its run in the payload
mark(payload, letter) ==
    LET meta == IF "meta" \in DOMAIN payload THEN payload.meta ELSE <<>>
        trace == IF "trace" \in DOMAIN meta THEN meta.trace ELSE <<>>
    IN  Put(payload, "meta", Put(meta, "trace", Append(trace, letter)))

\* a callback of the application that adds an attribute to an object
add_secret(obj) ==
    IF "attributes" \in DOMAIN obj
    THEN Put(obj, "attributes", Put(obj.attributes, "secret", <<"s">>))
    ELSE obj

\* a callback of the application that rewrites the payload of a
\* relationships request: a list becomes [blogs/1], anything else people/2
replace_members(payload) ==
    IF "items" \in DOMAIN payload
    THEN [items |-> <<[type |-> "blogs", id |-> str(1)]>>]
    ELSE [type |-> "people", id |-> str(2)]

\* callback(self, ret)
callback(hook, view, payload) ==
    CASE hook = "acso_after_serialise_object" -> acso_after_serialise_object(view, payload)
      [] hook = "acso_after_get" -> acso_after_get(view, payload)
      [] hook = "mark_x" -> mark(payload, "x")
      [] hook = "mark_y" -> mark(payload, "y")
      [] hook = "add_secret" -> add_secret(payload)
      [] hook = "replace_members" -> replace_members(payload)

\* every hook is handed the freshly built payload
run_callbacks_each_fresh(hooks, k, view, payload) ==
    IF Len(hooks) = 0 THEN payload ELSE callback(hooks[Len(hooks)], view, payload)

\* for callback in self.callbacks[point]: ret = callback(self, ret), from
\* hook k on; an exception ends the loop
RECURSIVE run_callbacks(_, _, _, _)
run_callbacks(hooks, k, view, payload) ==
    IF k > Len(hooks) \/ Raised(payload) THEN payload
    ELSE run_callbacks(hooks, k + 1, view, callback(hooks[k], view, payload))

(***************************************************************************)
(* Serialisation.                                                          *)
(***************************************************************************)
\* request.route_url(self.item_route_name, id=...)
item_url(view, id) == <<"/", view, "/">> \o str(id)

serialise_resource_identifier(view, obj_id) ==
    run_callbacks(callbacks[view].after_serialise_identifier, 1, view,
                  [type |-> view, id |-> str(obj_id)])

\* the rows related_query(obj_id, rel) selects
related_query(view, obj_id, key) ==
    LET rel == mapper_relationships[view][key]
    IN  IF rel.direction = "ONETOMANY"
        THEN {r \in db[rel.target] : r[rel.remote] = obj_id}
        ELSE {r \in db[rel.target] :
                 \E x \in db[view] : x[key_column[view]] = obj_id /\ x[rel.local] = r[rel.remote]}

\* the while loop of related_limit: the first of "limit.relationships.<key>",
\* "limit.relationships", "limit" that is a key of qinfo['_page']
RECURSIVE related_limit_loop(_, _)
related_limit_loop(limit_comps, page) ==
    IF Len(limit_comps) = 0 THEN [ok |-> TRUE, val |-> default_limit]
    ELSE IF \E e \in page : e[1] = join(limit_comps, ".")
         THEN int((CHOOSE e \in page : e[1] = join(limit_comps, "."))[2])
         ELSE related_limit_loop(SubSeq(limit_comps, 1, Len(limit_comps) - 1), page)

related_limit(key) ==
    LET qinfo == collection_query_info(request)
        limit == related_limit_loop(<<<<"limit">>, <<"relationships">>, <<key>>>>, qinfo.page)
    IN  IF ~qinfo.ok \/ ~limit.ok THEN [ok |-> FALSE, val |-> 0]
        ELSE [ok |-> TRUE, val |-> min(limit.val, max_limit)]

\* what q.limit(limit).all() can return for a to-many relationship: the
\* query has no ORDER BY, so the rows come in any order; a negative LIMIT
\* is read leniently by a store that does not reject it
related_results(rows, limit) ==
    {LenientWindow(s, 0, limit) : s \in Perms(rows)}

\* self.relationships.items(): the relationships in the mapper's order
relationship_keys(view) == CHOOSE s \in Perms(relationships[view]) : TRUE

\* A serialisation outcome carries error (the exception raised, "" if
\* none) and included: the assignments included[(type, id)] = obj made so
\* far, in order, each with the depth of the recursive call that built obj
\* (the length of its include_path).
RECURSIVE serialise_db_item(_, _, _, _)
RECURSIVE include_items(_, _, _, _, _)
RECURSIVE serialise_relationships(_, _, _, _, _, _)

\* the loop over q.all() of an included to-many relationship, from ritem k
\* on: each full row is serialised and stored under (type, id)
include_items(rel_view, ritems, k, included, path) ==
    IF k > Len(ritems) THEN {[error |-> "", included |-> included]}
    ELSE UNION {IF s.error # ""
                THEN {[error |-> s.error, included |-> s.included]}
                ELSE include_items(rel_view, ritems, k + 1,
                         Append(s.included,
                                [key |-> <<rel_view, ritems[k].id>>, obj |-> s.ret,
                                 depth |-> Len(path)]),
                         path) :
                s \in serialise_db_item(rel_view, ritems[k], included, path)}

\* the body of the loop over self.relationships for one relationship that
\* is requested as a field or as an include: its rel_dict
serialise_relationship(view, item, key, included, include_path) ==
    LET rel == mapper_relationships[view][key]
        rel_view == rel.target
        path == Append(include_path, <<key>>)
        is_included == join(path, ".") \in requested_include_names(request)
        rel_dict ==
            [links |-> [self |-> item_url(view, item.id) \o <<"/", "relationships", "/", key>>,
                        related |-> item_url(view, item.id) \o <<"/", key>>],
             meta |-> [direction |-> rel.direction, results |-> <<>>]]
        q == related_query(view, item.id, key)
        limit == related_limit(key)
        results(data) ==
            [limit |-> limit.val, available |-> Cardinality(q), returned |-> Len(data)]
        data(ritems) ==
            [k \in 1..Len(ritems) |-> serialise_resource_identifier(rel_view, ritems[k].id)]
        many(ritems) ==
            Put(Put(rel_dict, "meta", Put(rel_dict.meta, "results", results(data(ritems)))),
                "data", data(ritems))
    IN  IF rel.direction = "ONETOMANY"
        THEN IF ~limit.ok
             THEN {[error |-> "ValueError", rel_dict |-> rel_dict, included |-> included]}
             ELSE (IF limit.val < 0
                   THEN {[error |-> "DBAPIError", rel_dict |-> rel_dict, included |-> included]}
                   ELSE {})
                  \cup UNION {
                      IF is_included
                      THEN {[error |-> s.error, rel_dict |-> many(ritems),
                             included |-> s.included] :
                               s \in include_items(rel_view, ritems, 1, included, path)}
                      ELSE {[error |-> "", rel_dict |-> many(ritems), included |-> included]} :
                      ritems \in related_results(q, limit.val)}
        ELSE IF is_included
             THEN IF q = {}
                  THEN {[error |-> "", rel_dict |-> Put(rel_dict, "data", None),
                         included |-> included]}
                  ELSE LET ritem == CHOOSE r \in q : TRUE
                       IN  {[error |-> s.error, rel_dict |-> rel_dict,
                             included |-> IF s.error # "" THEN s.included
                                          ELSE Append(s.included,
                                                   [key |-> <<rel_view, ritem.id>>,
                                                    obj |-> s.ret,
                                                    depth |-> Len(path)])] :
                               s \in serialise_db_item(rel_view, ritem, included, path)}
             ELSE {[error |-> "",
                    rel_dict |-> Put(rel_dict, "data",
                                     IF item[rel.local] = NULL THEN None
                                     ELSE serialise_resource_identifier(rel_view, item[rel.local])),
                    included |-> included]}

\* the loop over self.relationships.items() from relationship k on
serialise_relationships(view, item, k, rels, included, include_path) ==
    IF k > Len(relationship_keys(view))
    THEN {[error |-> "", rels |-> rels, included |-> included]}
    ELSE LET key == relationship_keys(view)[k]
             rel_path_str == join(Append(include_path, <<key>>), ".")
         IN  IF /\ key \notin requested_relationships(view, request)
                /\ rel_path_str \notin requested_include_names(request)
             THEN serialise_relationships(view, item, k + 1, rels, included, include_path)
             ELSE UNION {IF b.error # ""
                         THEN {[error |-> b.error, rels |-> rels, included |-> b.included]}
                         ELSE serialise_relationships(view, item, k + 1,
                                  IF key \in requested_relationships(view, request)
                                  THEN Put(rels, key, b.rel_dict) ELSE rels,
                                  b.included, include_path) :
                         b \in serialise_relationship(view, item, key, included, include_path)}

\* the resource object before the after_serialise_object callbacks run
resource_object(view, item, rels) ==
    [id |-> str(item.id), type |-> view,
     attributes |-> [key \in requested_attributes(view, request) |-> item[key]],
     links |-> [self |-> item_url(view, item.id)],
     relationships |-> rels]

serialise_db_item(view, item, included, include_path) ==
    {IF r.error # "" THEN [error |-> r.error, ret |-> None, included |-> r.included]
     ELSE [error |-> "",
           ret |-> run_callbacks(callbacks[view].after_serialise_object, 1, view,
                                 resource_object(view, item, r.rels)),
           included |-> r.included] :
     r \in serialise_relationships(view, item, 1, <<>>, included, include_path)}

\* every assignment kept as an entry of its own, as a list would
included_values_appended(included) == [k \in 1..Len(included) |-> included[k].obj]

\* [obj for obj in included.values()]: one object per key, in the order the
\* keys were first assigned, each key with the object assigned to it last
included_values(included) ==
    LET firsts == Ascending({k \in 1..Len(included) :
                      \A j \in 1..(k - 1) : included[j].key # included[k].key})
        last(key) == CHOOSE k \in 1..Len(included) :
                      /\ included[k].key = key
                      /\ \A j \in (k + 1)..Len(included) : included[j].key # key
    IN  [i \in 1..Len(firsts) |-> included[last(included[firsts[i]].key)].obj]

(***************************************************************************)
(* Pagination links.                                                       *)
(***************************************************************************)
\* the last page computed from count instead of count - 1
last_offset_from_count(count, limit) == floordiv(count, limit) * limit

\* the page[offset] of the last link
last_offset(count, limit) == floordiv(max(count - 1, 0), limit) * limit

\* the prev link without the clamp at 0
prev_offset_unclamped(offset, limit) == offset - limit

\* the page[offset] of the prev link
prev_offset(offset, limit) == IF offset - limit < 0 THEN 0 ELSE offset - limit

\* a next link offered up to and including offset + limit = count
has_next_inclusive(offset, limit, count) == offset + limit <= count

\* the next link is wanted
has_next(offset, limit, count) == offset + limit < count

\* pagination_links(count) for a known count: link name -> page[offset] of
\* the link's query; limit = 0 raises ZeroDivisionError at the last link
pagination_links(qinfo, count) ==
    LET names == {"first", "last"}
                 \cup (IF has_next(qinfo.offset, qinfo.limit, count) THEN {"next"} ELSE {})
                 \cup (IF qinfo.offset > 0 THEN {"prev"} ELSE {})
    IN  IF qinfo.limit = 0 THEN [ok |-> FALSE, links |-> <<>>]
        ELSE [ok |-> TRUE,
              links |-> [n \in names |->
                  CASE n = "first" -> 0
                    [] n = "next" -> qinfo.offset + qinfo.limit
                    [] n = "prev" -> prev_offset(qinfo.offset, qinfo.limit)
                    [] n = "last" -> last_offset(count, qinfo.limit)]]

(***************************************************************************)
(* Responses.  An exception no handler catches is answered with status     *)
(* 500; error names the exception.  matched is the store's full result     *)
(* sequence for the query (before OFFSET/LIMIT) and queries counts the     *)
(* statements the request sent to the store.                               *)
(***************************************************************************)
NoResponse ==
    [status |-> 0, error |-> "", data |-> <<>>, links |-> <<>>,
     available |-> 0, limit |-> 0, offset |-> 0, returned |-> 0,
     matched |-> <<>>, queries |-> 0, bad_include |-> {},
     included |-> <<>>, stored |-> <<>>, meta |-> <<>>, flushes |-> 0]

ErrorResponse(status, error, queries) ==
    [NoResponse EXCEPT !.status = status, !.error = error, !.queries = queries]

\* the checks of jsonapi_view that precede the wrapped handler: the status
\* they raise, or 0 when the handler is invoked
jsonapi_view_precheck(req) ==
    IF media_type_params(req) THEN 415
    ELSE IF not_acceptable(req) THEN 406
    ELSE IF bad_include_paths(req) # {} THEN 400
    ELSE 0

\* the answer of jsonapi_view when its checks reject the request
precheck_response(req) ==
    [ErrorResponse(jsonapi_view_precheck(req), "HTTPError", 0)
        EXCEPT !.bad_include = IF jsonapi_view_precheck(req) = 400
                               THEN bad_include_paths(req) ELSE {}]

\* ret['included'], present when the request names include paths; stored
\* keeps the assignments the serialiser made to the included dict
with_included(doc, included) ==
    [doc EXCEPT !.included = IF requested_include_names(request) # {}
                             THEN included_values(included) ELSE <<>>,
                !.stored = included]

\* the list comprehension of collection_return over q.all(), from row k on
RECURSIVE serialise_rows(_, _, _, _)
serialise_rows(rows, k, data, included) ==
    IF k > Len(rows) THEN {[error |-> "", data |-> data, included |-> included]}
    ELSE UNION {IF s.error # ""
                THEN {[error |-> s.error, data |-> data, included |-> s.included]}
                ELSE serialise_rows(rows, k + 1, Append(data, s.ret), s.included) :
                s \in serialise_db_item(ViewModel, rows[k].row, included, <<>>)}

\* collection_return(q, count): the documents for the rows the store
\* returned, one per outcome of the serialiser's relationship queries
collection_return(qinfo, count, links, matched, rows) ==
    {IF d.error # "" THEN ErrorResponse(500, d.error, 2)
     ELSE with_included(
              [NoResponse EXCEPT
                  !.status = 200,
                  !.data = d.data,
                  !.links = links,
                  !.available = count, !.limit = qinfo.limit, !.offset = qinfo.offset,
                  !.returned = Len(d.data),
                  !.matched = [k \in 1..Len(matched) |-> str(matched[k].row.id)],
                  !.queries = 2],
              d.included) :
     d \in serialise_rows(rows, 1, <<>>, <<>>)}

\* self.single_item_query: the rows whose id is the id of the route
single_item_query == {r \in db[ViewModel] : str(r[key_column[ViewModel]]) = route.id}

\* single_return(q, not_found_message, identifier) of the view of a model
single_return(view, q, not_found_message, identifier) ==
    IF q = {}
    THEN IF not_found_message THEN {ErrorResponse(404, "HTTPNotFound", 1)}
         ELSE {[NoResponse EXCEPT !.status = 200, !.data = None, !.queries = 1]}
    ELSE LET item == CHOOSE r \in q : TRUE
             doc == [NoResponse EXCEPT !.status = 200, !.queries = 1]
         IN  IF identifier
             THEN {[doc EXCEPT !.data = serialise_resource_identifier(view, item.id)]}
             ELSE {IF s.error # "" THEN ErrorResponse(500, s.error, 1)
                   ELSE with_included([doc EXCEPT !.data = s.ret], s.included) :
                   s \in serialise_db_item(view, item, <<>>, <<>>)}

\* the handler's callbacks of a hook point applied to the document it built;
\* an HTTP exception raised by a hook is answered with its status
after_callbacks(point, doc) ==
    IF doc.status # 200 THEN doc
    ELSE LET ret == run_callbacks(callbacks[ViewModel][point], 1, ViewModel, doc)
         IN  IF Raised(ret) THEN ErrorResponse(ret.raised, "HTTPError", doc.queries)
             ELSE ret

\* the orders in which request.params can list the filter parameters
FilterOrders(qinfo) == Perms(qinfo.filters)

(***************************************************************************)
(* Memoisation.  collection_query_info (a classmethod, key (cls, request)),*)
(* requested_field_names (key self), requested_include_names (key self)    *)
(* and view_instance (key (self, model)) are wrapped in                    *)
(* functools.lru_cache(maxsize=128) in the class body: each has one table  *)
(* for the process, which keeps an entry, and with it the key's request    *)
(* and view instance, until 128 newer keys have displaced it.  A call that *)
(* raises stores nothing.  A new request is a new key, so the entries of   *)
(* earlier requests are never hit again; the model drops them from         *)
(* lru_cache when the next request arrives and so understates what the     *)
(* tables hold.                                                            *)
(***************************************************************************)
\* the entries that jsonapi_view and the first statements of the handler
\* it wraps store for the request: bad_include_paths walks every valid
\* include segment with view_instance; get and collection_get set up their
\* query with allowed_requested_query_columns (requested_field_names) and
\* collection_get sorts it (collection_query_info); the related and
\* relationships handlers fetch rel_view = self.view_instance(rel_class)
\* once the relationship is resolved.  Entries stored later, by the
\* serialiser and the loops over a request body, are not listed.
lru_entries ==
    LET view == ViewModel
        entry(function) == [function |-> function, self |-> view]
        bad == bad_include_paths(request)
        walked == requested_include_names(request) \ bad # {}
        wrapper == IF walked THEN {entry("view_instance")} ELSE {}
        resolved == route.relationship \in DOMAIN mapper_relationships[view]
        to_many ==
            /\ resolved
            /\ mapper_relationships[view][route.relationship].direction = "ONETOMANY"
        handler ==
            CASE route.op = "get" -> {entry("requested_field_names")}
              [] route.op = "collection_get" ->
                     {entry("requested_field_names")}
                     \cup (IF collection_query_info(request).ok
                           THEN {entry("collection_query_info")} ELSE {})
              [] route.op \in {"related_get", "relationships_get", "relationships_patch"} ->
                     IF resolved THEN {entry("view_instance")} ELSE {}
              [] route.op \in {"relationships_post", "relationships_delete"} ->
                     IF to_many THEN {entry("view_instance")} ELSE {}
              [] OTHER -> {}
    IN  IF media_type_params(request) \/ not_acceptable(request) THEN {}
        ELSE IF bad # {} THEN wrapper
        ELSE wrapper \cup handler

(***************************************************************************)
(* The state machine: the service takes one request at a time.             *)
(***************************************************************************)
\* a schema in which every column but the key may be NULL
NoRequiredColumns == [m \in Models |-> {}]

\* the callbacks dict collection_view_factory gives a view class
NoCallbacks == [m \in Models |-> [p \in HookPoints |-> <<>>]]

\* set(self.fields): allowed_fields as the view class defines it
AllFields == [m \in Models |-> attributes[m] \cup relationships[m]]

\* the route of GET on a collection
CollectionRoute(view) ==
    [op |-> "collection_get", view |-> view, id |-> <<>>, relationship |-> ""]

\* nothing is routed yet, no request is in progress
Quiescent ==
    /\ request = {}
    /\ phase = "idle"
    /\ response = NoResponse
    /\ route = CollectionRoute("blogs")
    /\ json_body = None
    /\ db_session = db
    /\ lru_cache = {}

Init ==
    /\ exposed_fields = ExposeAll
    /\ max_limit \in 1..MaxSetting
    /\ default_limit \in 1..(MaxSetting + 1)
    /\ db = InitialRows
    /\ callbacks = NoCallbacks
    /\ allowed_fields = AllFields
    /\ forbidden_objects = {}
    /\ required_columns = NoRequiredColumns
    /\ Quiescent

\* a client sends GET /blogs with some header fields and parameters
Receive ==
    /\ phase = "idle"
    /\ \E r \in Requests : request' = r
    /\ phase' = "pending"
    /\ lru_cache' = {}
    /\ route' = CollectionRoute("blogs")
    /\ UNCHANGED <<settings, db, db_session, response, json_body>>

\* jsonapi_view(collection_get): GET on the collection route.  No callback
\* set is registered, so the after_collection_get list is empty.  The self
\* link and the debug meta that jsonapi_view adds to a document are URLs and
\* settings of the framework and are not part of response.
collection_get ==
    /\ phase = "pending"
    /\ route.op = "collection_get"
    /\ phase' = "done"
    /\ lru_cache' = lru_entries
    /\ UNCHANGED <<settings, db, db_session, request, route, json_body>>
    /\ LET precheck == jsonapi_view_precheck(request)
           qinfo == collection_query_info(request)
       IN  IF precheck # 0
           THEN response' = precheck_response(request)
           ELSE IF ~qinfo.ok
           THEN response' = ErrorResponse(500, qinfo.error, 0)
           ELSE \E filters \in FilterOrders(qinfo) :
                    LET q == query_add_filtering(
                                 query_add_sorting(EmptyQuery, qinfo), filters)
                        count == count_rows(q)
                        links == pagination_links(qinfo, count)
                    IN  IF q.error # ""
                        THEN response' = ErrorResponse(q.status, q.error, 0)
                        ELSE IF ~links.ok
                        THEN response' = ErrorResponse(500, "ZeroDivisionError", 1)
                        ELSE \E matched \in OrderedResults(q) :
                                 \/ /\ qinfo.offset >= 0 /\ qinfo.limit >= 0
                                    /\ \E doc \in collection_return(
                                               qinfo, count, links.links, matched,
                                               Window(matched, qinfo.offset, qinfo.limit)) :
                                           response' = after_callbacks("after_collection_get", doc)
                                 \* a negative OFFSET or LIMIT: the store either
                                 \* rejects the statement or reads it leniently
                                 \/ /\ qinfo.offset < 0 \/ qinfo.limit < 0
                                    /\ \/ response' = ErrorResponse(500, "DBAPIError", 2)
                                       \/ \E doc \in collection_return(
                                                  qinfo, count, links.links, matched,
                                                  LenientWindow(matched, qinfo.offset, qinfo.limit)) :
                                              response' = after_callbacks("after_collection_get", doc)

\* the response is sent; the request's state is dropped and the session's
\* transaction has ended.  Nothing clears the lru_cache tables.
Respond ==
    /\ phase = "done"
    /\ phase' = "idle"
    /\ request' = {}
    /\ response' = NoResponse
    /\ json_body' = None
    /\ route' = CollectionRoute("blogs")
    /\ db_session' = db
    /\ UNCHANGED <<settings, db, lru_cache>>

Next == Receive \/ collection_get \/ Respond

Spec == Init /\ [][Next]_vars

(***************************************************************************)
(* The serialiser's state machine: single resources and collections of     *)
(* both models, requested with sparse fieldsets, include paths and         *)
(* relationship paging, under the configurations an application can set    *)
(* up before it serves.                                                    *)
(***************************************************************************)
\* view_classes.values() after create_jsonapi went through the models
\* blogs, people: create_resource stores every view under the key
\* 'collection_name' too, so that entry holds the view created last
view_classes_values == <<"people", "blogs", "people">>

\* callback_sets
callback_sets ==
    [set_name \in {"access_control_serialised_objects"} |->
        [after_serialise_object |-> "acso_after_serialise_object",
         after_get |-> "acso_after_get"]]

\* cls.callbacks[cb_name].append(callback)
append_callback(cbs, view, cb_name, hook) ==
    [cbs EXCEPT ![view][cb_name] = Append(@, hook)]

\* view_class.append_callback_set(set_name)
append_callback_set(cbs, view, set_name) ==
    [cbs EXCEPT ![view] =
        [p \in HookPoints |->
            IF p \in DOMAIN callback_sets[set_name]
            THEN Append(cbs[view][p], callback_sets[set_name][p])
            ELSE cbs[view][p]]]

\* append_callback_set_to_all_views(set_name), from view k of
\* view_classes.values() on
RECURSIVE append_callback_set_to_all_views(_, _, _)
append_callback_set_to_all_views(cbs, k, set_name) ==
    IF k > Len(view_classes_values) THEN cbs
    ELSE append_callback_set_to_all_views(
             append_callback_set(cbs, view_classes_values[k], set_name), k + 1, set_name)

\* the application's own callbacks appended to both serialise hook points
\* of every view, in the given order
RECURSIVE append_marks(_, _)
append_marks(cbs, hooks) ==
    IF Len(hooks) = 0 THEN cbs
    ELSE LET both(c, view) ==
                 append_callback(
                     append_callback(c, view, "after_serialise_object", hooks[1]),
                     view, "after_serialise_identifier", hooks[1])
         IN  append_marks(both(both(cbs, "blogs"), "people"), Tail(hooks))

AccessControlled ==
    append_callback_set_to_all_views(NoCallbacks, 1, "access_control_serialised_objects")

\* the set-ups served: [callbacks, allowed_fields, forbidden_objects]
Configurations ==
    {[callbacks |-> NoCallbacks, allowed_fields |-> AllFields, forbidden_objects |-> {}],
     [callbacks |-> AccessControlled, allowed_fields |-> AllFields, forbidden_objects |-> {}],
     [callbacks |-> AccessControlled,
      allowed_fields |-> [AllFields EXCEPT !["blogs"] = {"owner"}],
      forbidden_objects |-> {}],
     [callbacks |-> AccessControlled, allowed_fields |-> AllFields,
      forbidden_objects |-> {<<"blogs", str(2)>>, <<"people", str(1)>>}],
     [callbacks |-> NoCallbacks,
      allowed_fields |-> [AllFields EXCEPT !["blogs"] = {"owner"}],
      forbidden_objects |-> {}],
     [callbacks |-> append_marks(NoCallbacks, <<"mark_x", "mark_y">>),
      allowed_fields |-> AllFields, forbidden_objects |-> {}],
     [callbacks |-> append_marks(NoCallbacks, <<"mark_y", "mark_x">>),
      allowed_fields |-> AllFields, forbidden_objects |-> {}],
     [callbacks |-> append_callback_set(
                        append_callback(NoCallbacks, "blogs", "after_serialise_object",
                                        "add_secret"),
                        "blogs", "access_control_serialised_objects"),
      allowed_fields |-> [AllFields EXCEPT !["blogs"] = {"title"}],
      forbidden_objects |-> {}]}

SerialiseInit ==
    /\ exposed_fields = ExposeAll
    /\ db = InitialRows
    /\ required_columns = NoRequiredColumns
    /\ Quiescent
    /\ \E c \in Configurations :
           /\ callbacks = c.callbacks
           /\ allowed_fields = c.allowed_fields
           /\ forbidden_objects = c.forbidden_objects
           /\ IF c.callbacks = NoCallbacks /\ c.allowed_fields = AllFields
              THEN max_limit \in 1..MaxSetting /\ default_limit \in 1..(MaxSetting + 1)
              ELSE max_limit = MaxSetting /\ default_limit = MaxSetting

\* the parameters of these requests: sparse fieldsets, include paths and
\* paging of related resources
SerialiseItems ==
    {<<"param", fields_param("blogs"), v>> :
        v \in {<<"title">>, <<"owner">>, <<>>, <<"bogus">>}}
    \cup {<<"param", fields_param("people"), v>> : v \in {<<"name">>, <<>>}}
    \cup {<<"param", <<"include">>, v>> :
              v \in {<<"owner">>, <<"owner", ".", "blogs">>,
                     <<"owner", ".", "blogs", ".", "owner", ".", "blogs">>,
                     <<"blogs">>, <<"blogs", ".", "owner">>}}
    \cup {<<"param", <<"page", "[", "limit", ":", "relationships", ":", "blogs", "]">>, str(1)>>,
          <<"param", <<"page", "[", "limit", ".", "relationships", ".", "blogs", "]">>, str(1)>>,
          <<"param", <<"page", "[", "limit", "]">>, str(1)>>}

RECURSIVE ItemSetsOfSize(_, _)
ItemSetsOfSize(items, n) ==
    IF n = 0 THEN {{}}
    ELSE LET smaller == ItemSetsOfSize(items, n - 1)
         IN  smaller \cup {r \cup {i} : r \in smaller, i \in items}

SerialiseRequests == {r \in ItemSetsOfSize(SerialiseItems, MaxParams) : WellKeyed(r)}

\* the route of GET on one resource
ItemRoute(view, id) == [op |-> "get", view |-> view, id |-> id, relationship |-> ""]

SerialiseRoutes ==
    {CollectionRoute("blogs"), CollectionRoute("people"),
     ItemRoute("blogs", str(1)), ItemRoute("blogs", str(2)), ItemRoute("blogs", str(9)),
     ItemRoute("people", str(1))}

\* a client sends GET on an item or a collection route
ReceiveGet ==
    /\ phase = "idle"
    /\ \E r \in SerialiseRequests : request' = r
    /\ \E t \in SerialiseRoutes : route' = t
    /\ phase' = "pending"
    /\ lru_cache' = {}
    /\ UNCHANGED <<settings, db, db_session, response, json_body>>

\* jsonapi_view(get): GET on the item route
get ==
    /\ phase = "pending"
    /\ route.op = "get"
    /\ phase' = "done"
    /\ lru_cache' = lru_entries
    /\ UNCHANGED <<settings, db, db_session, request, route, json_body>>
    /\ IF jsonapi_view_precheck(request) # 0
       THEN response' = precheck_response(request)
       ELSE \E doc \in single_return(ViewModel, single_item_query, TRUE, FALSE) :
                response' = after_callbacks("after_get", doc)

SerialiseNext == ReceiveGet \/ get \/ collection_get \/ Respond

SerialiseSpec == SerialiseInit /\ [][SerialiseNext]_vars

(***************************************************************************)
(* Vocabulary of the properties.                                           *)
(***************************************************************************)
Answered == phase = "done"

\* the request passed the media type checks, which precede everything else
Negotiated(req) == ~media_type_params(req) /\ ~not_acceptable(req)

\* the wrapped handler was invoked and the query parameters parsed
Parsed(req) == jsonapi_view_precheck(req) = 0 /\ collection_query_info(req).ok

HasParam(req, key) == HasItem(req, "param", key)

\* the integer the client asks for, or the default it falls back to
RequestedLimit(req) ==
    IF HasParam(req, <<"page", "[", "limit", "]">>)
    THEN int(ItemValue(req, "param", <<"page", "[", "limit", "]">>)).val
    ELSE default_limit

RequestedOffset(req) ==
    IF HasParam(req, <<"page", "[", "offset", "]">>)
    THEN int(ItemValue(req, "param", <<"page", "[", "offset", "]">>)).val
    ELSE 0

\* every sort key names an attribute or relationship (and, after a
\* relationship, a column of its target)
SortKeysResolve(req) ==
    \A k \in 1..Len(collection_query_info(req).sort_keys) :
        SortKeyResolves(collection_query_info(req).sort_keys[k])

\* a filter on a column of the model itself with a supported operator
PlainFilter(finfo) ==
    /\ Len(finfo.colspec) = 1
    /\ Len(finfo.colspec[1]) = 1 /\ finfo.colspec[1][1] \in columns[ViewModel]
    /\ Len(finfo.op) = 1 /\ finfo.op[1] \in FilterOperators

\* a filter rel.col on a column of a relationship's target
DottedFilter(finfo) ==
    /\ Len(finfo.colspec) = 2
    /\ IsRelationshipName(ViewModel, finfo.colspec[1])
    /\ Len(finfo.colspec[2]) = 1
    /\ finfo.colspec[2][1] \in columns[view_instance(ViewModel, finfo.colspec[1])]
    /\ Len(finfo.op) = 1 /\ finfo.op[1] \in FilterOperators

\* the rows of the collection a filter selects, as the interface defines it
FilterSelects(x, finfo) ==
    IF PlainFilter(finfo)
    THEN Compare(x[finfo.colspec[1][1]], finfo.op[1], finfo.value, finfo.colspec[1][1])
    ELSE \E y \in JoinTargets(x, finfo.colspec[1][1]) :
             Compare(y[finfo.colspec[2][1]], finfo.op[1], finfo.value, finfo.colspec[2][1])

FilteredRows(req) ==
    {x \in db[ViewModel] : \A finfo \in collection_query_info(req).filters : FilterSelects(x, finfo)}

DataIds(resp) == {resp.data[k].id : k \in 1..Len(resp.data)}

(***************************************************************************)
(* Properties.                                                             *)
(***************************************************************************)

\* the request's sort and filter parameters are all well formed
WellFormedQuery(req) ==
    /\ Parsed(req)
    /\ SortKeysResolve(req)
    /\ \A finfo \in collection_query_info(req).filters : PlainFilter(finfo)

\* C1: for collection_get with page[limit] = L >= 0 and page[offset] = O >= 0
\* the data list is exactly the rows at positions O .. O+min(L, max_limit)-1
\* of the filtered, sorted result sequence, so it has at most min(L, max_limit)
\* items and meta.results.returned is its length.
C1_PageWindow ==
    (/\ Answered
     /\ WellFormedQuery(request)
     /\ RequestedLimit(request) >= 0
     /\ RequestedOffset(request) >= 0)
    => LET L == RequestedLimit(request)
           O == RequestedOffset(request)
           n == max(0, min(min(L, max_limit), Len(response.matched) - O))
       IN  /\ response.status = 200
           /\ Len(response.data) = n
           /\ \A k \in 1..n : response.data[k].id = response.matched[O + k]
           /\ Len(response.data) <= min(L, max_limit)
           /\ response.returned = Len(response.data)

\* C2: every QueryInfo produced by collection_query_info has
\* page[limit] <= max_limit whatever the client sends and whatever
\* default_limit is configured; without page[offset] the offset is 0 and
\* without sort the sort is the key field ascending.
C2_QueryInfoDefaults ==
    (Answered /\ Parsed(request))
    => LET qinfo == collection_query_info(request)
       IN  /\ qinfo.limit <= max_limit
           /\ response.status = 200 => response.limit <= max_limit
           /\ ~HasParam(request, <<"page", "[", "offset", "]">>) => qinfo.offset = 0
           /\ ~HasParam(request, <<"sort">>) =>
                  qinfo.sort_keys = <<[key |-> <<key_column[ViewModel]>>, ascending |-> TRUE]>>

\* C2 happens: the client asked for more than max_limit and the limit was
\* cut down, with neither page[offset] nor sort in the request
C2_Witness ==
    /\ Answered /\ Parsed(request)
    /\ HasParam(request, <<"page", "[", "limit", "]">>)
    /\ RequestedLimit(request) > max_limit
    /\ ~HasParam(request, <<"page", "[", "offset", "]">>)
    /\ ~HasParam(request, <<"sort">>)
    /\ response.status = 200 /\ response.limit = max_limit /\ response.offset = 0

\* C3: every QueryInfo produced by collection_query_info has page[limit] >= 0
\* and page[offset] >= 0 for every integer the client sends, negative ones
\* included.
C3_NonNegativePaging ==
    (Answered /\ Parsed(request))
    => /\ collection_query_info(request).limit >= 0
       /\ collection_query_info(request).offset >= 0

\* C4: meta.results.available of collection_get is the number of rows that
\* satisfy the filter predicates alone, whatever sort, page[limit] and
\* page[offset] are.
C4_AvailableIsFilterCount ==
    (Answered /\ WellFormedQuery(request) /\ response.status = 200)
    => response.available = Cardinality(FilteredRows(request))

\* C5: in every collection response with a known count, pagination_links has
\* first with page[offset] = 0, next if and only if offset + limit < available
\* and prev if and only if offset > 0.
C5_PaginationLinks ==
    (Answered /\ response.status = 200)
    => /\ "first" \in DOMAIN response.links
       /\ response.links["first"] = 0
       /\ "next" \in DOMAIN response.links
              <=> response.offset + response.limit < response.available
       /\ "prev" \in DOMAIN response.links <=> response.offset > 0

\* C5 happens: a page in the middle, with both a next and a prev link
C5_Witness ==
    /\ Answered /\ response.status = 200
    /\ {"first", "next", "prev", "last"} \subseteq DOMAIN response.links
    /\ response.offset > 0
    /\ response.offset + response.limit < response.available

\* C6 as stated: for every available >= 0 and limit >= 1 the last link's
\* page[offset] is floor((available-1)/limit)*limit.
C6_LastOffsetFloor ==
    (Answered /\ response.status = 200 /\ response.available >= 0 /\ response.limit >= 1)
    => response.links["last"] = ((response.available - 1) \div response.limit) * response.limit

\* C6 amended: for every available >= 1 and limit >= 1 the last link's
\* page[offset] is floor((available-1)/limit)*limit, and for available = 0
\* it is 0.
C6_LastOffsetAmended ==
    (Answered /\ response.status = 200 /\ response.available >= 0 /\ response.limit >= 1)
    => response.links["last"] =
           IF response.available = 0 THEN 0
           ELSE ((response.available - 1) \div response.limit) * response.limit

\* C6 happens: a last page that is neither the first nor a full one
C6_Witness ==
    /\ Answered /\ response.status = 200
    /\ response.limit >= 2
    /\ response.available % response.limit # 0
    /\ response.links["last"] > 0

\* C7: collection_get returns exactly the rows that satisfy every
\* filter[<colspec>:<op>]=<value> parameter (AND-combined); a dotted colspec
\* rel.col tests column col of the target of relationship rel.
C7_FilterExact ==
    (/\ Answered
     /\ Parsed(request)
     /\ ~HasParam(request, <<"sort">>)
     /\ RequestedLimit(request) >= 1
     /\ RequestedOffset(request) >= 0
     /\ \A finfo \in collection_query_info(request).filters :
            PlainFilter(finfo) \/ DottedFilter(finfo))
    => /\ response.status = 200
       /\ response.available = Cardinality(FilteredRows(request))
       /\ DataIds(response) \subseteq {str(x.id) : x \in FilteredRows(request)}

\* C8: a request carrying a filter whose operator is outside the eleven
\* supported ones fails with 400 and returns no data.
C8_UnknownOperator400 ==
    (/\ Answered
     /\ Negotiated(request)
     /\ Cardinality(request) = 1
     /\ \E p \in filter_params(request) :
            LET parts == split(re_match(p).group2, ":")
            IN  Len(parts) = 2 /\ ~(Len(parts[2]) = 1 /\ parts[2][1] \in FilterOperators))
    => response.status = 400 /\ response.data = <<>>

\* a sort key or filter column that names nothing in the schema, an empty
\* sort parameter included, or a filter key without ':<op>'
BadSortOrFilterKey(req) ==
    \/ \E k \in 1..Len(sort_key_infos(IF HasParam(req, <<"sort">>)
                                      THEN ItemValue(req, "param", <<"sort">>)
                                      ELSE <<key_column[ViewModel]>>)) :
           ~SortKeyResolves(sort_key_infos(IF HasParam(req, <<"sort">>)
                                           THEN ItemValue(req, "param", <<"sort">>)
                                           ELSE <<key_column[ViewModel]>>)[k])
    \/ \E p \in filter_params(req) :
           \/ Len(split(re_match(p).group2, ":")) # 2
           \/ ~HasModelAttribute(ViewModel, split(split(re_match(p).group2, ":")[1], ".")[1])

\* C9: a request whose sort key or filter column names no attribute or
\* relationship of the schema is answered with 400 Bad Request, never with an
\* unhandled error.
C9_BadKey400 ==
    (Answered /\ Negotiated(request) /\ BadSortOrFilterKey(request))
    => response.status = 400

\* the first k segments of an include path follow declared relationships
\* from the view's model
ValidIncludePrefix(segments, k) ==
    \E v \in [0..k -> Models] :
        /\ v[0] = ViewModel
        /\ \A i \in 1..k :
               /\ IsRelationshipName(v[i - 1], segments[i])
               /\ v[i] = mapper_relationships[v[i - 1]][segments[i][1]].target

\* every prefix of every requested include path from its first undeclared
\* segment onward
InvalidIncludePrefixes(req) ==
    IF ~HasParam(req, <<"include">>) THEN {}
    ELSE LET paths == split(ItemValue(req, "param", <<"include">>), ",")
         IN  {pre \in UNION {{SubSeq(split(paths[i], "."), 1, k) :
                                 k \in 1..Len(split(paths[i], "."))} : i \in 1..Len(paths)} :
                 ~ValidIncludePrefix(pre, Len(pre))}

\* C10: bad_include_paths is, for each requested include path, every prefix
\* from the first segment that is not a declared relationship onward, and
\* whenever it is not empty the request fails with 400 before the wrapped
\* handler runs: no query of the handler is executed.
C10_BadIncludeRejected ==
    Answered
    => /\ bad_include_paths(request) = {join(pre, ".") : pre \in InvalidIncludePrefixes(request)}
       /\ bad_include_paths(request) # {} =>
              /\ response.status \in {400, 406, 415}
              /\ response.queries = 0
              /\ response.data = <<>>
              \* 406 and 415 come from the media type checks, which run first
              /\ Negotiated(request) =>
                     /\ response.status = 400
                     /\ response.bad_include = bad_include_paths(request)

\* C10 happens: a path with an undeclared segment in the middle is rejected
\* together with its longer prefix
C10_Witness ==
    /\ Answered /\ Negotiated(request)
    /\ response.status = 400
    /\ <<"owner", ".", "bogus">> \in response.bad_include
    /\ <<"owner", ".", "bogus", ".", "blogs">> \in response.bad_include
    /\ <<"owner">> \notin response.bad_include

(***************************************************************************)
(* Vocabulary of the serialiser's properties.                              *)
(***************************************************************************)
\* a GET was answered with a document
Served == phase = "done" /\ response.status = 200 /\ route.op \in {"get", "collection_get"}

\* the resource objects of the primary data
PrimaryObjects(resp) == IF route.op = "get" THEN {resp.data} ELSE SeqToSet(resp.data)

\* every resource object of the document
DocumentObjects(resp) == PrimaryObjects(resp) \cup SeqToSet(resp.included)

\* the rows the relationship key of row x of a model points to
RelatedRows(view, x, key) ==
    LET rel == mapper_relationships[view][key]
    IN  {y \in db[rel.target] : x[rel.local] = y[rel.remote]}

\* the (type, id) of every row on a requested include path below row x,
\* which was reached by include_path
RECURSIVE IncludeReach(_, _, _)
IncludeReach(view, x, include_path) ==
    UNION {UNION {{<<mapper_relationships[view][key].target, str(y.id)>>}
                  \cup IncludeReach(mapper_relationships[view][key].target, y,
                                    Append(include_path, <<key>>)) :
                  y \in RelatedRows(view, x, key)} :
           key \in {k \in relationships[view] :
                       join(Append(include_path, <<k>>), ".")
                           \in requested_include_names(request)}}

\* the rows of the primary data
PrimaryRows(resp) ==
    {x \in db[ViewModel] : \E o \in PrimaryObjects(resp) : o.id = str(x.id)}

\* no to-many relationship of the store has more rows than a relationship
\* query returns
Untruncated ==
    /\ \A x \in request : x[2][1] # "page"
    /\ \A m \in Models : \A k \in relationships[m] : \A x \in db[m] :
           Cardinality(RelatedRows(m, x, k)) <= min(default_limit, max_limit)

IncludedKeys(resp) == {<<resp.included[k].type, resp.included[k].id>> : k \in 1..Len(resp.included)}

\* C11: the included array of a document holds no two objects with the
\* same (type, id), and it holds every (type, id) fetched along a requested
\* include path: every key the serialiser stored, only rows on a requested
\* include path below the primary rows, and all of these when no
\* relationship query is cut by its limit.
C11_IncludedDistinctAndComplete ==
    Served =>
        /\ \A i, j \in 1..Len(response.included) :
               (/\ response.included[i].type = response.included[j].type
                /\ response.included[i].id = response.included[j].id) => i = j
        /\ \A k \in 1..Len(response.stored) :
               <<response.stored[k].key[1], str(response.stored[k].key[2])>>
                   \in IncludedKeys(response)
        /\ IncludedKeys(response)
               \subseteq UNION {IncludeReach(ViewModel, x, <<>>) : x \in PrimaryRows(response)}
        /\ Untruncated =>
               IncludedKeys(response)
                   = UNION {IncludeReach(ViewModel, x, <<>>) : x \in PrimaryRows(response)}

\* two blogs of one page share their owner, who is included once
C11_Witness ==
    /\ Served
    /\ route.op = "collection_get"
    /\ Len(response.data) >= 2
    /\ Len(response.stored) > Len(response.included)
    /\ \E k \in 1..Len(response.included) : response.included[k].type = "people"

\* a resource identifier: type and id, and no member of a resource object
IsResourceIdentifier(x) ==
    /\ {"type", "id"} \subseteq DOMAIN x
    /\ DOMAIN x \cap {"attributes", "relationships", "links"} = {}

\* C12: every relationship block of every resource object of a document
\* has a data member: a list of resource identifiers for a to-many
\* relationship, one resource identifier or null for a to-one relationship,
\* whether or not the relationship's path is a requested include.
C12_RelationshipDataMember ==
    Served =>
        \A obj \in DocumentObjects(response) :
            "relationships" \in DOMAIN obj =>
                \A name \in DOMAIN obj.relationships :
                    LET block == obj.relationships[name]
                    IN  /\ "data" \in DOMAIN block
                        /\ IF block.meta.direction = "ONETOMANY"
                           THEN \A k \in 1..Len(block.data) :
                                    IsResourceIdentifier(block.data[k])
                           ELSE block.data = None \/ IsResourceIdentifier(block.data)


\* the fields[<type>] parameter of the request names field f of a type, or
\* is absent
FieldRequested(type, f) == <<f>> \in requested_field_names(type, request)

\* the objects of a document that no after_serialise_object hook has touched
UnhookedObjects(resp) ==
    {obj \in DocumentObjects(resp) : callbacks[obj.type].after_serialise_object = <<>>}

\* C13: in every object serialise_db_item builds, before any hook runs, the
\* keys of attributes are exactly the requested field names that are
\* allowed attributes of the schema and the keys of relationships are
\* exactly the requested field names that are allowed relationships of the
\* schema; a relationship requested only through include is computed (its
\* rows are included) but is no key of relationships; an empty
\* fields[<type>] gives both maps empty.
C13_RequestedAllowedFields ==
    Served =>
        \A obj \in UnhookedObjects(response) :
            /\ DOMAIN obj.attributes
                   = {f \in attributes[obj.type] \cap allowed_fields[obj.type] :
                         FieldRequested(obj.type, f)}
            /\ DOMAIN obj.relationships
                   = {f \in relationships[obj.type] \cap allowed_fields[obj.type] :
                         FieldRequested(obj.type, f)}
            /\ \A f \in relationships[obj.type] :
                   (/\ obj \in PrimaryObjects(response)
                    /\ ~FieldRequested(obj.type, f)
                    /\ <<f>> \in requested_include_names(request)
                    /\ Untruncated)
                   => /\ f \notin DOMAIN obj.relationships
                      /\ \A x \in db[obj.type] : str(x.id) = obj.id =>
                             \A y \in RelatedRows(obj.type, x, f) :
                                 <<mapper_relationships[obj.type][f].target, str(y.id)>>
                                     \in IncludedKeys(response)
            /\ (/\ HasItem(request, "param", fields_param(obj.type))
                /\ ItemValue(request, "param", fields_param(obj.type)) = <<>>)
               => DOMAIN obj.attributes = {} /\ DOMAIN obj.relationships = {}

\* the request parameter page[limit:relationships:<name>]
RelatedLimitParam(name) == <<"page", "[", "limit", ":", "relationships", ":", name, "]">>

\* the limit the request asks for the to-many relationship of that name
RequestedRelatedLimit(name) ==
    IF HasItem(request, "param", RelatedLimitParam(name))
    THEN min(int(ItemValue(request, "param", RelatedLimitParam(name))).val, max_limit)
    ELSE min(default_limit, max_limit)

\* C14: for a to-many relationship named R, page[limit:relationships:R]=k
\* makes the relationship's meta.results.limit equal min(k, max_limit) and
\* its data holds at most that many identifiers; when the parameter is
\* absent the limit is min(default_limit, max_limit).
C14_RelatedLimit ==
    Served =>
        \A obj \in DocumentObjects(response) :
            "relationships" \in DOMAIN obj =>
                \A name \in DOMAIN obj.relationships :
                    LET block == obj.relationships[name]
                    IN  block.meta.direction = "ONETOMANY" =>
                            /\ block.meta.results.limit = RequestedRelatedLimit(name)
                            /\ Len(block.data) <= RequestedRelatedLimit(name)


\* the standard access-control set is registered for the view of the request
AccessControlRegistered ==
    /\ \E k \in DOMAIN callbacks[ViewModel].after_serialise_object :
           callbacks[ViewModel].after_serialise_object[k] = "acso_after_serialise_object"
    /\ \E k \in DOMAIN callbacks[ViewModel].after_get :
           callbacks[ViewModel].after_get[k] = "acso_after_get"

\* allowed_object rejects the row of that type and id
Rejected(type, id) == <<type, id>> \in forbidden_objects

\* the reduced object that stands for a rejected row
IsForbiddenPlaceholder(obj) ==
    /\ DOMAIN obj = {"type", "id", "meta"}
    /\ DOMAIN obj.meta = {"errors"}
    /\ Len(obj.meta.errors) = 1
    /\ obj.meta.errors[1].code = 403

\* a full resource object carrying the values of its row
IsNormalObject(obj) ==
    /\ {"type", "id", "attributes", "relationships", "links"} \subseteq DOMAIN obj
    /\ "meta" \in DOMAIN obj => "errors" \notin DOMAIN obj.meta
    /\ \A f \in attributes[obj.type] :
           (FieldRequested(obj.type, f) /\ f \in allowed_fields[obj.type])
           => /\ f \in DOMAIN obj.attributes
              /\ \E x \in db[obj.type] : str(x.id) = obj.id /\ obj.attributes[f] = x[f]

\* C15: with the standard access-control set registered, a get of a row
\* that allowed_object rejects fails as a whole with 403; collection_get
\* does not abort: it answers 200 with the rows of the page in their order,
\* each rejected row as the reduced {type, id, meta.errors: [code 403]}
\* placeholder and every other row as its normal object.
C15_ForbiddenRow ==
    (/\ phase = "done"
     /\ jsonapi_view_precheck(request) = 0
     /\ AccessControlRegistered)
    => /\ (/\ route.op = "get"
           /\ Rejected(ViewModel, route.id)
           /\ \E x \in db[ViewModel] : str(x.id) = route.id)
          => response.status = 403
       /\ route.op = "collection_get"
          => /\ response.status = 200
             /\ Len(response.data)
                    = min(response.limit, Len(response.matched) - response.offset)
             /\ \A k \in 1..Len(response.data) :
                    LET obj == response.data[k]
                    IN  /\ obj.type = ViewModel
                        /\ obj.id = response.matched[response.offset + k]
                        /\ IF Rejected(obj.type, obj.id)
                           THEN IsForbiddenPlaceholder(obj)
                           ELSE IsNormalObject(obj)

\* a page of a collection with a rejected row and an accepted row
C15_Witness ==
    /\ phase = "done"
    /\ AccessControlRegistered
    /\ route = CollectionRoute("blogs")
    /\ response.status = 200
    /\ \E k \in 1..Len(response.data) : IsForbiddenPlaceholder(response.data[k])
    /\ \E k \in 1..Len(response.data) : IsNormalObject(response.data[k])


\* acso_after_serialise_object is the last after_serialise_object hook of a type
AccessControlLast(type) ==
    LET hooks == callbacks[type].after_serialise_object
    IN  Len(hooks) > 0 /\ hooks[Len(hooks)] = "acso_after_serialise_object"

\* the objects of a document acso_after_serialise_object accepted
AcceptedObjects(resp) ==
    {obj \in DocumentObjects(resp) :
        AccessControlLast(obj.type) /\ ~Rejected(obj.type, obj.id)}

\* the names of the attributes and relationships of the object of a type as
\* it is handed to acso_after_serialise_object
HandedNames(type) ==
    {f \in attributes[type] \cup relationships[type] : FieldRequested(type, f)}
    \cup (IF \E k \in DOMAIN callbacks[type].after_serialise_object :
                 callbacks[type].after_serialise_object[k] = "add_secret"
          THEN {"secret"} ELSE {})

\* the names acso_after_serialise_object stripped from an object it returned
StrippedNames(obj) ==
    {<<n>> : n \in HandedNames(obj.type)
                     \ (DOMAIN obj.attributes \cup DOMAIN obj.relationships)}

\* C16: acso_after_serialise_object applied to an object that
\* allowed_object accepts returns an object whose attribute keys and
\* relationship keys are all in allowed_fields and whose
\* meta.forbidden_fields lists exactly the names stripped from that object,
\* no name that was never present in it.
C16_ForbiddenFieldsAreStripped ==
    Served =>
        \A obj \in AcceptedObjects(response) :
            /\ DOMAIN obj.attributes \subseteq allowed_fields[obj.type]
            /\ DOMAIN obj.relationships \subseteq allowed_fields[obj.type]
            /\ obj.meta.forbidden_fields = StrippedNames(obj)

\* C16 (amended): acso_after_serialise_object applied to an object that
\* allowed_object accepts returns an object whose attribute keys and
\* relationship keys are all in allowed_fields and whose
\* meta.forbidden_fields lists the names stripped from that object together
\* with every requested field name that is not in allowed_fields, present
\* in the object or not.
C16_ForbiddenFieldsAmended ==
    Served =>
        \A obj \in AcceptedObjects(response) :
            /\ DOMAIN obj.attributes \subseteq allowed_fields[obj.type]
            /\ DOMAIN obj.relationships \subseteq allowed_fields[obj.type]
            /\ obj.meta.forbidden_fields
                   = StrippedNames(obj)
                     \cup {f \in requested_field_names(obj.type, request) :
                              \A n \in allowed_fields[obj.type] : f # <<n>>}

\* an attribute added by an earlier hook is stripped and listed
C16_Witness ==
    /\ Served
    /\ \E obj \in AcceptedObjects(response) :
           /\ "secret" \in HandedNames(obj.type)
           /\ "secret" \notin DOMAIN obj.attributes
           /\ <<"secret">> \in obj.meta.forbidden_fields
           /\ "title" \in DOMAIN obj.attributes


\* the letters of the marking hooks among hooks, in registration order
RECURSIVE MarkLetters(_)
MarkLetters(hooks) ==
    IF Len(hooks) = 0 THEN <<>>
    ELSE (IF hooks[1] = "mark_x" THEN <<"x">>
          ELSE IF hooks[1] = "mark_y" THEN <<"y">> ELSE <<>>)
         \o MarkLetters(Tail(hooks))

\* the marks a payload carries, in the order they were made
TraceOf(payload) ==
    IF "meta" \in DOMAIN payload /\ "trace" \in DOMAIN payload.meta
    THEN payload.meta.trace ELSE <<>>

\* the resource identifiers in the relationship blocks of an object
IdentifiersOf(obj) ==
    IF "relationships" \notin DOMAIN obj THEN {}
    ELSE UNION {LET block == obj.relationships[name]
                IN  IF "data" \notin DOMAIN block THEN {}
                    ELSE IF block.meta.direction = "ONETOMANY" THEN SeqToSet(block.data)
                    ELSE IF block.data = None THEN {}
                    ELSE {block.data} :
                name \in DOMAIN obj.relationships}

\* C19: serialise_resource_identifier and serialise_db_item apply their
\* hooks one at a time in registration order, each hook receiving the
\* return value of the one before it and the first the freshly built
\* identifier or object; the caller gets the last hook's return value.  So
\* every identifier and object of a document carries the marks of all its
\* marking hooks, in registration order, and nothing a later hook removed.
C19_HooksInRegistrationOrder ==
    Served =>
        \A obj \in DocumentObjects(response) :
            /\ TraceOf(obj) = MarkLetters(callbacks[obj.type].after_serialise_object)
            /\ \A ident \in IdentifiersOf(obj) :
                   TraceOf(ident) = MarkLetters(callbacks[ident.type].after_serialise_identifier)
            /\ AccessControlLast(obj.type) /\ "attributes" \in DOMAIN obj
               => DOMAIN obj.attributes \subseteq allowed_fields[obj.type]

\* two hooks have marked an object and an identifier, y before x
C19_Witness ==
    /\ Served
    /\ \E obj \in DocumentObjects(response) :
           /\ TraceOf(obj) = <<"y", "x">>
           /\ \E ident \in IdentifiersOf(obj) : TraceOf(ident) = <<"y", "x">>


\* the object stored at the first assignment to a key of the included dict
FirstStored(resp, key) ==
    resp.stored[CHOOSE k \in 1..Len(resp.stored) :
                    /\ resp.stored[k].key = key
                    /\ \A j \in 1..(k - 1) : resp.stored[j].key # key].obj

\* an object without the order of the identifiers of its to-many
\* relationships, which the store is free to choose at every query
Unordered(obj) ==
    IF "relationships" \notin DOMAIN obj THEN obj
    ELSE Put(obj, "relationships",
             [name \in DOMAIN obj.relationships |->
                 LET block == obj.relationships[name]
                 IN  IF "data" \in DOMAIN block /\ block.meta.direction = "ONETOMANY"
                     THEN Put(block, "data", SeqToSet(block.data))
                     ELSE block])

\* C20: when serialisation reaches a (type, id) already present in the
\* included set the existing entry is left unchanged: after the request
\* the entry of every key is the object stored at the first arrival at that
\* key, whatever parent or include path reaches the same row later.
C20_FirstArrivalKept ==
    (Served /\ Untruncated /\ requested_include_names(request) # {}) =>
        \A k \in 1..Len(response.stored) :
            \E obj \in SeqToSet(response.included) :
                /\ <<obj.type, obj.id>>
                       = <<response.stored[k].key[1], str(response.stored[k].key[2])>>
                /\ Unordered(obj) = Unordered(FirstStored(response, response.stored[k].key))


(***************************************************************************)
(* Writes and the endpoints of one resource.  A request body is JSON: null *)
(* is None, an object is a function from its members, an array is          *)
(* [items |-> the sequence of its elements].  The requests carry no header *)
(* field and no query parameter, a body names at most one relationship,    *)
(* and the before_* and after_related_get / after_relationships_get lists  *)
(* of a view are empty.  The handler's session is rolled back when the     *)
(* request ends in an exception and committed otherwise.                   *)
(***************************************************************************)
\* largest key the store's sequence hands out for a new row
MaxId == 2

\* settings.get('pyramid_jsonapi.allow_client_ids', 'false')
allow_client_ids == "false"

\* db_session.query(model).get(obj_id) on a session holding rows: the row
\* with that key, if any
query_get(rows, view, obj_id) ==
    {r \in rows[view] : str(r[key_column[view]]) = obj_id}

object_exists(view, obj_id) == query_get(db, view, obj_id) # {}

\* setattr(obj, relname, target) for a many-to-one relationship: target is
\* the set holding the related row, empty for None
set_to_one(rows, view, obj, relname, target) ==
    LET rel == mapper_relationships[view][relname]
        value == IF target = {} THEN NULL ELSE (CHOOSE t \in target : TRUE)[rel.remote]
    IN  [rows EXCEPT ![view] =
            {IF r = obj THEN [r EXCEPT ![rel.local] = value] ELSE r : r \in rows[view]}]

\* the rows a one-to-many relationship of obj holds
members_of(rows, view, obj, relname) ==
    LET rel == mapper_relationships[view][relname]
    IN  {r \in rows[rel.target] : r[rel.remote] = obj[rel.local]}

\* setattr(obj, relname, members) for a one-to-many relationship: the rows
\* in members point to obj, the rows that leave the collection to nothing
set_to_many(rows, view, obj, relname, members) ==
    LET rel == mapper_relationships[view][relname]
        keys == {m[key_column[rel.target]] : m \in members}
    IN  [rows EXCEPT ![rel.target] =
            {IF r[key_column[rel.target]] \in keys
             THEN [r EXCEPT ![rel.remote] = obj[rel.local]]
             ELSE IF r[rel.remote] = obj[rel.local]
                  THEN [r EXCEPT ![rel.remote] = NULL] ELSE r :
             r \in rows[rel.target]}]

\* the statements of a flush of rows break a constraint of the store: a
\* NOT NULL column, a foreign key or the primary key
IntegrityError(rows) ==
    \E m \in Models : \E r \in rows[m] :
        \/ \E c \in required_columns[m] : r[c] = NULL
        \/ \E name \in DOMAIN mapper_relationships[m] :
               LET rel == mapper_relationships[m][name]
               IN  /\ rel.direction = "MANYTOONE"
                   /\ r[rel.local] # NULL
                   /\ \A t \in rows[rel.target] : t[rel.remote] # r[rel.local]
        \/ \E r2 \in rows[m] : r2 # r /\ r2[key_column[m]] = r[key_column[m]]

\* how a handler ends: the response, the store it leaves and the rows its
\* session held when it returned or raised
http_error(status, error) ==
    [response |-> ErrorResponse(status, error, 0), db |-> db, session |-> db]

\* db_session.flush() of a session holding rows, in a try block whose except
\* clause raises status caught for IntegrityError (500: no try block); a
\* collection that holds None makes the flush raise FlushError
flush(rows, holds_none, caught, doc) ==
    IF holds_none
    THEN [response |-> [ErrorResponse(500, "FlushError", 0) EXCEPT !.flushes = 1],
          db |-> db, session |-> rows]
    ELSE IF IntegrityError(rows)
    THEN [response |-> [ErrorResponse(caught, "IntegrityError", 0) EXCEPT !.flushes = 1],
          db |-> db, session |-> rows]
    ELSE [response |-> [doc EXCEPT !.flushes = 1], db |-> rows, session |-> rows]

\* jsonapi_view around the outcome of a handler
jsonapi_view(outcome) ==
    IF jsonapi_view_precheck(request) # 0
    THEN [response |-> precheck_response(request), db |-> db, session |-> db]
    ELSE outcome

\* an empty document, {}
EmptyDocument == [NoResponse EXCEPT !.status = 200]

\* the rows db_session.query(rel_class).get(resid['id']) finds for the
\* resource identifiers of a list
identified(rows, rel_view, items) ==
    UNION {query_get(rows, rel_view, items[k].id) : k \in 1..Len(items)}

\* one of the identifiers of a list names no row: get returns None
holds_missing(rows, rel_view, items) ==
    \E k \in 1..Len(items) : query_get(rows, rel_view, items[k].id) = {}


\* the loop of patch over rels.items() on a session holding rows: the HTTP
\* status raised (0: none) and the rows after the setattr calls
patch_relationships(view, item_key, rels, rows) ==
    IF DOMAIN rels = {} THEN [status |-> 0, error |-> "", rows |-> rows]
    ELSE LET relname == CHOOSE n \in DOMAIN rels : TRUE
             data == rels[relname]
             raised(status, error) == [status |-> status, error |-> error, rows |-> rows]
             done(rows1) == [status |-> 0, error |-> "", rows |-> rows1]
         IN  IF relname \notin relationships[view] THEN raised(404, "HTTPNotFound")
             ELSE LET rel == mapper_relationships[view][relname]
                      item == CHOOSE r \in rows[view] : str(r[key_column[view]]) = item_key
                      to_one == rel.direction = "MANYTOONE"
                  IN  IF data = None
                      THEN IF to_one THEN done(set_to_one(rows, view, item, relname, {}))
                           ELSE raised(500, "TypeError")
                      ELSE IF "items" \in DOMAIN data
                      THEN IF holds_missing(rows, rel.target, data.items)
                           THEN raised(404, "HTTPNotFound")
                           ELSE IF to_one THEN raised(500, "TypeError")
                           ELSE done(set_to_many(rows, view, item, relname,
                                                 identified(rows, rel.target, data.items)))
                      ELSE IF "type" \notin DOMAIN data \/ data.type # rel.target
                           THEN raised(409, "HTTPConflict")
                      ELSE IF "id" \notin DOMAIN data THEN raised(400, "HTTPBadRequest")
                      ELSE IF query_get(rows, rel.target, data.id) = {}
                           THEN raised(404, "HTTPNotFound")
                      ELSE IF to_one
                           THEN done(set_to_one(rows, view, item, relname,
                                                query_get(rows, rel.target, data.id)))
                           ELSE raised(500, "TypeError")

\* jsonapi_view(patch): PATCH on the item route
patch ==
    /\ phase = "pending"
    /\ route.op = "patch"
    /\ phase' = "done"
    /\ lru_cache' = lru_entries
    /\ UNCHANGED <<settings, request, route, json_body>>
    /\ LET view == ViewModel
           data == json_body
           atts == IF "attributes" \in DOMAIN data THEN data.attributes ELSE <<>>
           rels == IF "relationships" \in DOMAIN data THEN data.relationships ELSE <<>>
           item == CHOOSE r \in db[view] : str(r[key_column[view]]) = route.id
           merged == [db EXCEPT ![view] =
                         {IF r = item
                          THEN [c \in DOMAIN r |->
                                   IF c \in DOMAIN atts /\ c # key_column[view]
                                   THEN atts[c] ELSE r[c]]
                          ELSE r : r \in db[view]}]
           related == patch_relationships(view, route.id, rels, merged)
           doc == [EmptyDocument EXCEPT
                      !.meta = [updated |->
                                   [attributes |-> DOMAIN atts \ {key_column[view]},
                                    relationships |-> DOMAIN rels]]]
           outcome ==
               IF ~object_exists(view, route.id) THEN http_error(404, "HTTPNotFound")
               ELSE IF "type" \notin DOMAIN data \/ data.type # view
                    THEN http_error(409, "HTTPConflict")
               ELSE IF "id" \notin DOMAIN data \/ data.id # route.id
                    THEN http_error(409, "HTTPConflict")
               ELSE IF ~(DOMAIN atts \subseteq columns[view])
                    THEN http_error(500, "TypeError")
               ELSE IF related.status # 0
                    THEN [http_error(related.status, related.error)
                             EXCEPT !.session = related.rows]
               ELSE flush(related.rows, FALSE, 500, doc)
       IN  /\ response' = jsonapi_view(outcome).response
           /\ db' = jsonapi_view(outcome).db
           /\ db_session' = jsonapi_view(outcome).session

\* jsonapi_view(delete): DELETE on the item route.  The session sets the
\* foreign key of the rows of a one-to-many relationship of the deleted
\* row to NULL.
delete ==
    /\ phase = "pending"
    /\ route.op = "delete"
    /\ phase' = "done"
    /\ lru_cache' = lru_entries
    /\ UNCHANGED <<settings, request, route, json_body>>
    /\ LET view == ViewModel
           found == query_get(db, view, route.id)
           item == CHOOSE r \in found : TRUE
           to_many == {n \in DOMAIN mapper_relationships[view] :
                          mapper_relationships[view][n].direction = "ONETOMANY"}
           orphaned == IF to_many = {} THEN db
                       ELSE set_to_many(db, view, item, CHOOSE n \in to_many : TRUE, {})
           deleted == [orphaned EXCEPT ![view] = @ \ {item}]
           outcome ==
               IF found # {}
               THEN flush(deleted, FALSE, 424,
                          [EmptyDocument EXCEPT
                              !.data = serialise_resource_identifier(view, item.id)])
               ELSE [response |-> [EmptyDocument EXCEPT !.data = None], db |-> db,
                     session |-> db]
       IN  /\ response' = jsonapi_view(outcome).response
           /\ db' = jsonapi_view(outcome).db
           /\ db_session' = jsonapi_view(outcome).session

\* the key the store gives the next row of a table
next_id(rows, view) ==
    IF rows[view] = {} THEN 1
    ELSE (CHOOSE r \in rows[view] : \A x \in rows[view] : x.id <= r.id).id + 1

\* jsonapi_view(collection_post): POST on the collection route.  The new
\* row is serialised from the session the flush has written to.
collection_post ==
    /\ phase = "pending"
    /\ route.op = "collection_post"
    /\ phase' = "done"
    /\ lru_cache' = lru_entries
    /\ UNCHANGED <<settings, request, route, json_body>>
    /\ LET view == ViewModel
           data == json_body
           atts == data.attributes
           rels == IF "relationships" \in DOMAIN data THEN data.relationships ELSE <<>>
           item == [c \in columns[view] |->
                       IF c = key_column[view] THEN next_id(db, view)
                       ELSE IF c \in DOMAIN atts THEN atts[c] ELSE NULL]
           added == [db EXCEPT ![view] = @ \cup {item}]
           relname == CHOOSE n \in DOMAIN rels : TRUE
           rel == mapper_relationships[view][relname]
           reldata == rels[relname].data
           related ==
               IF DOMAIN rels = {} THEN added
               ELSE IF rel.direction = "ONETOMANY"
               THEN set_to_many(added, view, item, relname,
                                identified(db, rel.target, reldata.items))
               ELSE set_to_one(added, view, item, relname,
                               query_get(db, rel.target, reldata.id))
           stored == CHOOSE r \in related[view] : r[key_column[view]] = item[key_column[view]]
           outcome ==
               IF allow_client_ids # "true" /\ "id" \in DOMAIN data
               THEN http_error(403, "HTTPForbidden")
               ELSE IF "type" \notin DOMAIN data \/ data.type # view
                    THEN http_error(409, "HTTPConflict")
               ELSE IF "attributes" \notin DOMAIN data THEN http_error(500, "KeyError")
               ELSE IF ~(DOMAIN atts \subseteq columns[view])
                    THEN http_error(500, "TypeError")
               ELSE IF DOMAIN rels # {} /\ relname \notin DOMAIN mapper_relationships[view]
                    THEN http_error(404, "HTTPNotFound")
               ELSE flush(related,
                          /\ DOMAIN rels # {}
                          /\ rel.direction = "ONETOMANY"
                          /\ holds_missing(db, rel.target, reldata.items),
                          409, [EmptyDocument EXCEPT !.status = 201])
           answer == jsonapi_view(outcome)
       IN  /\ db' = answer.db
           /\ db_session' = answer.session
           /\ IF answer.response.status # 201 THEN response' = answer.response
              ELSE \E row \in {stored} :
                       \E s \in (serialise_db_item(view, row, <<>>, <<>>))' :
                           response' = IF s.error # ""
                                       THEN ErrorResponse(500, s.error, 0)
                                       ELSE [answer.response EXCEPT !.data = s.ret]


\* rel_view.collection_return(q, count, identifiers) for the rows of a page
\* of related resources, from row k on: the documents, one per outcome of
\* the serialiser's relationship queries
RECURSIVE related_collection_return(_, _, _, _, _)
related_collection_return(rel_view, rows, k, doc, identifiers) ==
    IF k > Len(rows) THEN {[doc EXCEPT !.returned = Len(doc.data)]}
    ELSE IF identifiers
    THEN related_collection_return(
             rel_view, rows, k + 1,
             [doc EXCEPT !.data = Append(@, serialise_resource_identifier(rel_view, rows[k].id))],
             identifiers)
    ELSE UNION {IF s.error # "" THEN {ErrorResponse(500, s.error, 2)}
                ELSE related_collection_return(
                         rel_view, rows, k + 1,
                         [doc EXCEPT !.data = Append(@, s.ret), !.stored = s.included],
                         identifiers) :
                s \in serialise_db_item(rel_view, rows[k], doc.stored, <<>>)}

\* the common body of related_get and relationships_get: the full related
\* resources, or their identifiers
related_outcomes(identifiers) ==
    LET view == ViewModel
        relname == route.relationship
        rel == mapper_relationships[view][relname]
        rel_view == rel.target
        obj == CHOOSE r \in query_get(db, view, route.id) : TRUE
        q == related_query(view, obj[key_column[view]], relname)
        qinfo == collection_query_info(request)
        count == Cardinality(q)
        links == pagination_links(qinfo, count)
        sorted == [k \in 1..count |->
                      CHOOSE r \in q : r.id = Ascending({x.id : x \in q})[k]]
        page == [NoResponse EXCEPT
                    !.status = 200, !.links = links.links, !.available = count,
                    !.limit = qinfo.limit, !.offset = qinfo.offset, !.queries = 2]
    IN  IF relname \notin DOMAIN mapper_relationships[view]
        THEN {ErrorResponse(404, "HTTPNotFound", 0)}
        ELSE IF ~object_exists(view, route.id)
        THEN {ErrorResponse(404, "HTTPNotFound", 1)}
        ELSE IF rel.direction = "ONETOMANY"
        THEN IF ~qinfo.ok THEN {ErrorResponse(500, qinfo.error, 1)}
             ELSE IF ~links.ok THEN {ErrorResponse(500, "ZeroDivisionError", 2)}
             ELSE {with_included(d, d.stored) :
                   d \in related_collection_return(
                             rel_view, LenientWindow(sorted, qinfo.offset, qinfo.limit),
                             1, page, identifiers)}
        ELSE single_return(rel_view, q, FALSE, identifiers)

\* jsonapi_view(related_get): GET on the related route
related_get ==
    /\ phase = "pending"
    /\ route.op = "related_get"
    /\ phase' = "done"
    /\ lru_cache' = lru_entries
    /\ UNCHANGED <<settings, db, db_session, request, route, json_body>>
    /\ IF jsonapi_view_precheck(request) # 0
       THEN response' = precheck_response(request)
       ELSE \E doc \in related_outcomes(FALSE) : response' = doc

\* jsonapi_view(relationships_get): GET on the relationships route
relationships_get ==
    /\ phase = "pending"
    /\ route.op = "relationships_get"
    /\ phase' = "done"
    /\ lru_cache' = lru_entries
    /\ UNCHANGED <<settings, db, db_session, request, route, json_body>>
    /\ IF jsonapi_view_precheck(request) # 0
       THEN response' = precheck_response(request)
       ELSE \E doc \in related_outcomes(TRUE) : response' = doc

\* a resource identifier of the list names another type than rel_view's
type_conflict(rel_view, items) ==
    \E k \in 1..Len(items) : items[k].type # rel_view

\* jsonapi_view(relationships_post): POST on the relationships route
relationships_post ==
    /\ phase = "pending"
    /\ route.op = "relationships_post"
    /\ phase' = "done"
    /\ lru_cache' = lru_entries
    /\ UNCHANGED <<settings, request, route, json_body>>
    /\ LET view == ViewModel
           relname == route.relationship
           rel == mapper_relationships[view][relname]
           data == json_body.items
           found == query_get(db, view, route.id)
           obj == CHOOSE r \in found : TRUE
           extended == set_to_many(db, view, obj, relname,
                                   members_of(db, view, obj, relname)
                                       \cup identified(db, rel.target, data))
           outcome ==
               IF relname \notin DOMAIN mapper_relationships[view]
               THEN http_error(404, "HTTPNotFound")
               ELSE IF rel.direction = "MANYTOONE" THEN http_error(404, "HTTPNotFound")
               ELSE IF type_conflict(rel.target, data) THEN http_error(409, "HTTPConflict")
               ELSE IF found = {} THEN http_error(500, "AttributeError")
               ELSE flush(extended, holds_missing(db, rel.target, data), 424, EmptyDocument)
       IN  /\ response' = jsonapi_view(outcome).response
           /\ db' = jsonapi_view(outcome).db
           /\ db_session' = jsonapi_view(outcome).session

\* jsonapi_view(relationships_patch): PATCH on the relationships route.  The
\* to-one branch returns without a flush: its statement is sent when the
\* session is committed, outside every try block of the handler.  The
\* to-one branch reads data, the payload the before_relationships_patch
\* callbacks returned; the to-many loop reads request.json_body['data'] anew.
relationships_patch ==
    /\ phase = "pending"
    /\ route.op = "relationships_patch"
    /\ phase' = "done"
    /\ lru_cache' = lru_entries
    /\ UNCHANGED <<settings, request, route, json_body>>
    /\ LET view == ViewModel
           relname == route.relationship
           rel == mapper_relationships[view][relname]
           data == run_callbacks(callbacks[view].before_relationships_patch, 1, view,
                                 json_body)
           found == query_get(db, view, route.id)
           obj == CHOOSE r \in found : TRUE
           referred == set_to_one(db, view, obj, relname,
                                  IF data = None THEN {}
                                  ELSE query_get(db, rel.target, data.id))
           replaced == set_to_many(db, view, obj, relname,
                                   identified(db, rel.target, json_body.items))
           outcome ==
               IF relname \notin DOMAIN mapper_relationships[view]
               THEN http_error(404, "HTTPNotFound")
               ELSE IF rel.direction = "MANYTOONE"
               THEN IF data # None /\ data.type # rel.target
                    THEN http_error(409, "HTTPConflict")
                    ELSE IF found = {} THEN http_error(500, "AttributeError")
                    ELSE IF IntegrityError(referred)
                         THEN [http_error(500, "IntegrityError") EXCEPT !.session = referred]
                    ELSE [response |-> EmptyDocument, db |-> referred, session |-> referred]
               ELSE IF type_conflict(rel.target, json_body.items)
                    THEN http_error(409, "HTTPConflict")
               ELSE IF found = {} THEN http_error(500, "AttributeError")
               ELSE flush(replaced, holds_missing(db, rel.target, json_body.items), 424,
                          EmptyDocument)
       IN  /\ response' = jsonapi_view(outcome).response
           /\ db' = jsonapi_view(outcome).db
           /\ db_session' = jsonapi_view(outcome).session

\* jsonapi_view(relationships_delete): DELETE on the relationships route.
\* Removing a row the relationship does not hold, None included, raises
\* the ValueError the handler passes over.  The loop checks the type of an
\* identifier and removes its row before it looks at the next one; with no
\* identifier in the body a missing resource is never touched.
relationships_delete ==
    /\ phase = "pending"
    /\ route.op = "relationships_delete"
    /\ phase' = "done"
    /\ lru_cache' = lru_entries
    /\ UNCHANGED <<settings, request, route, json_body>>
    /\ LET view == ViewModel
           relname == route.relationship
           rel == mapper_relationships[view][relname]
           data == json_body.items
           found == query_get(db, view, route.id)
           obj == CHOOSE r \in found : TRUE
           RECURSIVE remove_loop(_, _)
           \* for resid in json_body['data'], from identifier k on, on a
           \* session holding rows
           remove_loop(k, rows) ==
               IF k > Len(data) THEN flush(rows, FALSE, 424, EmptyDocument)
               ELSE IF data[k].type # rel.target
                    THEN [http_error(409, "HTTPConflict") EXCEPT !.session = rows]
               ELSE IF found = {}
                    THEN [http_error(500, "AttributeError") EXCEPT !.session = rows]
               ELSE remove_loop(k + 1,
                        set_to_many(rows, view, obj, relname,
                                    members_of(rows, view, obj, relname)
                                        \ query_get(rows, rel.target, data[k].id)))
           outcome ==
               IF relname \notin DOMAIN mapper_relationships[view]
               THEN http_error(404, "HTTPNotFound")
               ELSE IF rel.direction = "MANYTOONE" THEN http_error(404, "HTTPNotFound")
               ELSE remove_loop(1, db)
       IN  /\ response' = jsonapi_view(outcome).response
           /\ db' = jsonapi_view(outcome).db
           /\ db_session' = jsonapi_view(outcome).session


(***************************************************************************)
(* The state machine of the writes: a store whose blogs must have an       *)
(* owner, one blog, two people, and requests on rows 1 and 2 and on the    *)
(* missing row 9.                                                          *)
(***************************************************************************)
WriteRows ==
    [m \in Models |->
        IF m = "blogs" THEN {[id |-> 1, title |-> <<"a">>, owner_id |-> 1]}
        ELSE {[id |-> 1, name |-> <<"b">>], [id |-> 2, name |-> <<"a">>]}]

\* the application's replace_members appended to the
\* before_relationships_patch list of both views
PatchHooked ==
    append_callback(
        append_callback(NoCallbacks, "blogs", "before_relationships_patch",
                        "replace_members"),
        "people", "before_relationships_patch", "replace_members")

\* create_resource(config, Blog, expose_fields={'title'}) and
\* create_resource(config, Person, expose_fields={'name'}): the columns are
\* exposed, the relationships blogs.owner and people.blogs are not
AttributesOnly ==
    [m \in Models |->
        [is_none |-> FALSE, keys |-> IF m = "blogs" THEN {"title"} ELSE {"name"}]]

WriteInit ==
    /\ exposed_fields \in {ExposeAll, AttributesOnly}
    /\ max_limit = MaxSetting
    /\ default_limit = MaxSetting
    /\ db = WriteRows
    /\ callbacks \in {NoCallbacks, PatchHooked}
    /\ allowed_fields = AllFields
    /\ forbidden_objects = {}
    /\ required_columns = [NoRequiredColumns EXCEPT !["blogs"] = {"owner_id"}]
    /\ Quiescent

\* request.matchdict and the view callable of a route
Route(op, view, id, relationship) ==
    [op |-> op, view |-> view, id |-> id, relationship |-> relationship]

\* a resource identifier of a request body
ResourceIdentifier(type, id) == [type |-> type, id |-> str(id)]

\* the requests a client sends: the route and json_body['data']
WriteRequests ==
    LET ids == {str(1), str(2), str(9)}
        blog == [type |-> "blogs", attributes |-> [title |-> <<"c">>]]
        person == [type |-> "people", attributes |-> [name |-> <<"c">>]]
        owners == {None, ResourceIdentifier("people", 2), ResourceIdentifier("people", 9),
                   ResourceIdentifier("blogs", 1)}
        lists == {[items |-> <<>>],
                  [items |-> <<ResourceIdentifier("blogs", 1)>>],
                  [items |-> <<ResourceIdentifier("blogs", 9)>>],
                  [items |-> <<ResourceIdentifier("people", 1)>>],
                  [items |-> <<ResourceIdentifier("blogs", 1),
                               ResourceIdentifier("people", 1)>>]}
        reads == {"get", "delete"}
        related == {"related_get", "relationships_get"}
        linked == {"relationships_post", "relationships_patch", "relationships_delete"}
    IN  {[route |-> Route(op, view, id, ""), body |-> None] :
            op \in reads, view \in Models, id \in {str(1), str(9)}}
        \cup {[route |-> Route("delete", "people", str(2), ""), body |-> None]}
        \cup {[route |-> Route(op, "blogs", id, name), body |-> None] :
                 op \in related, id \in {str(1), str(9)}, name \in {"owner", "bogus"}}
        \cup {[route |-> Route(op, "people", id, "blogs"), body |-> None] :
                 op \in related, id \in ids}
        \cup {[route |-> Route("patch", "blogs", id, ""), body |-> b] :
                 id \in {str(1), str(9)},
                 b \in {[blog EXCEPT !.type = t] @@ [id |-> i] :
                           t \in Models, i \in {str(1), str(9)}}
                       \cup {[type |-> "blogs", id |-> str(1),
                              relationships |-> [n \in {name} |-> o]] :
                                name \in {"owner", "bogus"}, o \in owners}
                       \cup {[blog EXCEPT !.type = "blogs"] @@
                             [id |-> str(1), relationships |-> [n \in {name} |-> o]] :
                                name \in {"owner", "bogus"},
                                o \in {ResourceIdentifier("people", 9)}}}
        \cup {[route |-> Route("patch", "people", str(1), ""), body |-> b] :
                 b \in {[type |-> "people", id |-> str(1),
                         relationships |-> [blogs |-> l]] : l \in lists}}
        \cup {[route |-> Route("collection_post", "blogs", <<>>, ""), body |-> b] :
                 b \in {blog, person, blog @@ [id |-> str(2)]}
                       \cup {blog @@ [relationships |-> [n \in {name} |-> [data |-> o]]] :
                                name \in {"owner", "bogus"},
                                o \in owners \ {None}}}
        \cup {[route |-> Route("collection_post", "people", <<>>, ""), body |-> person]}
        \cup {[route |-> Route(op, "people", id, name), body |-> l] :
                 op \in linked, id \in ids, name \in {"blogs", "bogus"}, l \in lists}
        \cup {[route |-> Route(op, "blogs", id, "owner"), body |-> o] :
                 op \in linked, id \in {str(1), str(9)}, o \in owners}

\* a client sends a request on a route, with a body where the method has one
ReceiveWrite ==
    /\ phase = "idle"
    /\ \E w \in WriteRequests :
           /\ w.route.op = "collection_post" => next_id(db, w.route.view) <= MaxId
           /\ route' = w.route
           /\ json_body' = w.body
    /\ phase' = "pending"
    /\ lru_cache' = {}
    /\ UNCHANGED <<settings, db, db_session, request, response>>

WriteNext ==
    \/ ReceiveWrite
    \/ get
    \/ patch
    \/ delete
    \/ collection_post
    \/ related_get
    \/ relationships_get
    \/ relationships_post
    \/ relationships_patch
    \/ relationships_delete
    \/ Respond

WriteSpec == WriteInit /\ [][WriteNext]_vars


\* the operations that write to the store
WriteOperations ==
    {"collection_post", "patch", "delete",
     "relationships_post", "relationships_patch", "relationships_delete"}

\* the operations addressed to one resource id
SingleResourceOperations ==
    {"get", "patch", "delete", "related_get", "relationships_get",
     "relationships_post", "relationships_patch", "relationships_delete"}

\* C17: every write operation (collection_post, patch, delete,
\* relationships_post, relationships_patch, relationships_delete) whose
\* flush violates a constraint of the backing store ends with 424 Failed
\* Dependency, and the write to the store was attempted once, not retried.
C17_ConstraintViolationIs424 ==
    (/\ phase = "done"
     /\ route.op \in WriteOperations
     /\ response.error = "IntegrityError")
    => /\ response.status = 424
       /\ response.flushes = 1

\* C18: every operation addressed to a single resource id (get, patch,
\* delete, related_get, relationships_get, relationships_post,
\* relationships_patch, relationships_delete) answers 404 Not Found when
\* the collection has no row with that id.
C18_MissingRowIs404 ==
    [][(/\ phase = "pending"
        /\ phase' = "done"
    /\ lru_cache' = lru_entries
        /\ route.op \in SingleResourceOperations
        /\ ~object_exists(ViewModel, route.id))
       => response'.status = 404]_vars

\* the operations of which the request body is checked element by element
CheckedWrites ==
    {"patch", "relationships_post", "relationships_patch", "relationships_delete"}

\* C21: a patch, relationships_post, relationships_patch or
\* relationships_delete request that ends in a validation (400), not-found
\* (404) or conflict (409) error has performed no mutation on the store
\* session: every check of the body precedes the first merge, setattr or
\* list remove, so the session holds exactly the rows of the store.
C21_ChecksPrecedeMutation ==
    (/\ phase = "done"
     /\ route.op \in CheckedWrites
     /\ response.status \in {400, 404, 409})
    => db_session = db

\* the payload the last before_relationships_patch callback returned
PatchPayload ==
    run_callbacks(callbacks[ViewModel].before_relationships_patch, 1, ViewModel, json_body)

\* the rows the relationship of the route holds in the store
StoredMembers ==
    LET rel == mapper_relationships[ViewModel][route.relationship]
        obj == CHOOSE r \in query_get(db, ViewModel, route.id) : TRUE
    IN  {t \in db[rel.target] : t[rel.remote] = obj[rel.local]}

\* the rows a payload names: those of its list, or the one of its
\* identifier, none for null
NamedMembers(payload) ==
    LET rel == mapper_relationships[ViewModel][route.relationship]
    IN  IF "items" \in DOMAIN payload THEN identified(db, rel.target, payload.items)
        ELSE IF payload = None THEN {}
        ELSE query_get(db, rel.target, payload.id)

\* C22: in relationships_patch the membership written to the relationship
\* is the payload returned by the last before_relationships_patch hook, for
\* to-one and to-many relationships alike: after a successful request the
\* relationship holds exactly the rows that payload names.
C22_HookPayloadIsStored ==
    (/\ phase = "done"
     /\ route.op = "relationships_patch"
     /\ response.status = 200)
    => StoredMembers = NamedMembers(PatchPayload)

\* C23: a relationship block's meta carries a results member only when the
\* relationship is to-many, then with available, limit and returned where
\* returned <= limit and returned <= available; for a to-one relationship
\* meta has direction and no results key.
C23_ResultsOnlyForToMany ==
    Served =>
        \A obj \in DocumentObjects(response) :
            "relationships" \in DOMAIN obj =>
                \A name \in DOMAIN obj.relationships :
                    LET meta == obj.relationships[name].meta
                    IN  /\ "direction" \in DOMAIN meta
                        /\ IF meta.direction = "ONETOMANY"
                           THEN /\ "results" \in DOMAIN meta
                                /\ DOMAIN meta.results = {"available", "limit", "returned"}
                                /\ meta.results.returned <= meta.results.limit
                                /\ meta.results.returned <= meta.results.available
                           ELSE "results" \notin DOMAIN meta

\* C24: the memoisation of QueryInfo, requested field names, include names
\* and view instances is scoped to one request: once a request has been
\* answered and the service is idle again, no process-wide table still
\* holds an entry created for it.
C24_MemoisationEndsWithRequest ==
    phase = "idle" => lru_cache = {}

\* how often a hook occurs in a list of hooks
Occurrences(hooks, hook) == Cardinality({k \in 1..Len(hooks) : hooks[k] = hook})

\* C25: after create_resource has been called for the models and
\* append_callback_set_to_all_views(S) is then called once, every view
\* class's hook list for each lifecycle point named in S contains S's hook
\* exactly once: no view class receives it twice, none is skipped.
C25_SetAppendedOncePerView ==
    callbacks = AccessControlled =>
        \A view \in Models :
            \A point \in DOMAIN callback_sets["access_control_serialised_objects"] :
                Occurrences(callbacks[view][point],
                            callback_sets["access_control_serialised_objects"][point]) = 1

\* the number of segments of the longest include path the request names
RECURSIVE LongestPath(_, _)
LongestPath(paths, k) ==
    IF k > Len(paths) THEN 0
    ELSE max(Len(split(paths[k], ".")), LongestPath(paths, k + 1))

LongestInclude(req) ==
    IF ~HasParam(req, <<"include">>) THEN 0
    ELSE LongestPath(split(ItemValue(req, "param", <<"include">>), ","), 1)

\* C26: serialise_db_item terminates for every finite set of requested
\* include paths, even when the relationship data is cyclic: in every
\* answer no recursive call of the serialiser was deeper than the number of
\* segments of the longest requested include path, so the recursion is
\* bounded by the request and not by the data.
C26_SerialiserTerminates ==
    (phase = "done" /\ route.op \in {"get", "collection_get"})
        => \A k \in 1..Len(response.stored) :
               response.stored[k].depth <= LongestInclude(request)

\* a row of cyclic data was reached twice, at different depths, the second
\* time at the end of the longest requested path
C26_Witness ==
    /\ Served
    /\ \E j, k \in 1..Len(response.stored) :
           /\ response.stored[j].key = response.stored[k].key
           /\ response.stored[j].depth < response.stored[k].depth
           /\ response.stored[k].depth = LongestInclude(request)
           /\ response.stored[k].depth = 4

(***************************************************************************)
(* Walking the pages of one collection.                                    *)
(***************************************************************************)
\* the links of the page at the given offset of the answered collection:
\* the same query with page[offset] replaced, over the same count
LinksAt(qinfo, offset) ==
    pagination_links([qinfo EXCEPT !.offset = offset], response.available).links

\* the offsets visited from the given page by following next, at most
\* `pages` links far; the walk is finished when its last page has no next
RECURSIVE FollowNext(_, _, _)
FollowNext(qinfo, offset, pages) ==
    LET links == LinksAt(qinfo, offset)
    IN  IF "next" \notin DOMAIN links THEN [visited |-> <<offset>>, finished |-> TRUE]
        ELSE IF pages = 0 THEN [visited |-> <<offset>>, finished |-> FALSE]
        ELSE LET rest == FollowNext(qinfo, links["next"], pages - 1)
             IN  [visited |-> <<offset>> \o rest.visited, finished |-> rest.finished]

\* the walk from the first link of the answered collection
WalkFromFirst ==
    FollowNext(collection_query_info(request), response.links["first"], response.available)

\* C28: for limit >= 1 and a fixed available >= 0, starting at the first
\* link and repeatedly following the next link (each at the previous offset
\* plus limit) reaches after finitely many pages a page with no next link,
\* whose offset is the offset of the last link; the prev link of no page,
\* neither of the answered one nor of one on the walk, has a negative
\* offset.
C28_NextReachesLast ==
    (Answered /\ response.status = 200 /\ response.limit >= 1)
    => LET qinfo == collection_query_info(request)
           walk == FollowNext(qinfo, response.links["first"], response.available)
           pages == walk.visited
       IN  /\ walk.finished
           /\ \A k \in 2..Len(pages) : pages[k] = pages[k - 1] + response.limit
           /\ pages[Len(pages)] = response.links["last"]
           /\ "prev" \in DOMAIN response.links => response.links["prev"] >= 0
           /\ \A k \in 1..Len(pages) :
                  LET links == LinksAt(qinfo, pages[k])
                  IN  "prev" \in DOMAIN links => links["prev"] >= 0

\* C28 happens: a walk of more than one page ends on the last link, and the
\* answered page, nearer to the start than one limit, has a prev link
C28_Witness ==
    /\ Answered /\ response.status = 200 /\ response.limit >= 2
    /\ Len(WalkFromFirst.visited) >= 2
    /\ response.links["last"] >= response.limit
    /\ "prev" \in DOMAIN response.links
    /\ response.offset < response.limit

\* C30: pagination_links, and with it collection_get, completes and returns
\* a links object with first and last for every page[limit] in the allowed
\* range 0..max_limit, page[limit] = 0 included.
C30_LinksForEveryLimit ==
    (/\ Answered
     /\ WellFormedQuery(request)
     /\ RequestedOffset(request) >= 0
     /\ collection_query_info(request).limit \in 0..max_limit)
    => /\ response.status = 200
       /\ {"first", "last"} \subseteq DOMAIN response.links

\* the relationships of the mapper that expose_fields leaves out of the view
HiddenRelationships(view) == DOMAIN mapper_relationships[view] \ relationships[view]

\* the operations that name their relationship in the route
RelationshipOperations ==
    {"related_get", "relationships_get", "relationships_post",
     "relationships_patch", "relationships_delete"}

\* the request names a relationship that its view does not expose: in the
\* route, or in the relationships member of the resource object it sends
NamesHiddenRelationship ==
    IF route.op \in RelationshipOperations
    THEN route.relationship \in HiddenRelationships(route.view)
    ELSE /\ route.op \in {"patch", "collection_post"}
         /\ "relationships" \in DOMAIN json_body
         /\ DOMAIN json_body.relationships \cap HiddenRelationships(route.view) # {}

\* C29: a relationship left out of a view's expose_fields is treated as
\* non-existent by every endpoint: related_get, relationships_get,
\* relationships_post, relationships_patch, relationships_delete and
\* collection_post answer 404 for it as patch does, and the store is left
\* as it was, so it can be neither read nor written through the API.
C29_HiddenRelationshipIs404 ==
    (phase = "done" /\ NamesHiddenRelationship)
    => /\ response.status = 404
       /\ db_session = db

(***************************************************************************)
(* Access control on every view: the access_control_serialised_objects     *)
(* set appended by append_callback_set_to_all_views, allowed_object        *)
(* rejecting some rows, and the four handlers that answer with resource    *)
(* objects.                                                                *)
(***************************************************************************)
\* the rows allowed_object rejects, in the set-ups served
RejectedRows ==
    {{<<"blogs", str(1)>>},
     {<<"people", str(1)>>},
     {<<"blogs", str(2)>>, <<"people", str(1)>>},
     {<<"blogs", str(1)>>, <<"people", str(2)>>}}

AccessInit ==
    /\ exposed_fields = ExposeAll
    /\ max_limit = MaxSetting
    /\ default_limit = MaxSetting
    /\ db = WriteRows
    /\ callbacks = AccessControlled
    /\ allowed_fields = AllFields
    /\ forbidden_objects \in RejectedRows
    /\ required_columns = NoRequiredColumns
    /\ Quiescent

\* the include parameters of these requests
AccessRequests ==
    {{}} \cup {{<<"param", <<"include">>, v>>} :
                  v \in {<<"owner">>, <<"blogs">>, <<"owner", ".", "blogs">>,
                         <<"blogs", ".", "owner">>}}

\* the routes and bodies of these requests
AccessRoutes ==
    LET blog == [type |-> "blogs", attributes |-> [title |-> <<"c">>]]
    IN  {[route |-> CollectionRoute(view), body |-> None] : view \in Models}
        \cup {[route |-> ItemRoute(view, id), body |-> None] :
                 view \in Models, id \in {str(1), str(2)}}
        \cup {[route |-> Route("related_get", "blogs", id, "owner"), body |-> None] :
                 id \in {str(1), str(2)}}
        \cup {[route |-> Route("related_get", "people", id, "blogs"), body |-> None] :
                 id \in {str(1), str(2)}}
        \cup {[route |-> Route("collection_post", "blogs", <<>>, ""), body |-> b] :
                 b \in {blog}
                       \cup {blog @@ [relationships |-> [owner |-> [data |-> o]]] :
                                o \in {ResourceIdentifier("people", 1),
                                       ResourceIdentifier("people", 2)}}}

\* a client sends a request on one of the four routes
ReceiveAccess ==
    /\ phase = "idle"
    /\ \E r \in AccessRequests : request' = r
    /\ \E w \in AccessRoutes :
           /\ w.route.op = "collection_post" => next_id(db, w.route.view) <= MaxId
           /\ route' = w.route
           /\ json_body' = w.body
    /\ phase' = "pending"
    /\ lru_cache' = {}
    /\ UNCHANGED <<settings, db, db_session, response>>

AccessNext ==
    \/ ReceiveAccess
    \/ get
    \/ collection_get
    \/ related_get
    \/ collection_post
    \/ Respond

AccessSpec == AccessInit /\ [][AccessNext]_vars

\* the answer's primary data is a list
ListAnswered ==
    \/ route.op = "collection_get"
    \/ /\ route.op = "related_get"
       /\ mapper_relationships[route.view][route.relationship].direction = "ONETOMANY"

\* the resource objects of the answer: primary data and included
AnsweredObjects ==
    (IF ListAnswered THEN SeqToSet(response.data)
     ELSE IF response.data = None THEN {} ELSE {response.data})
    \cup SeqToSet(response.included)

\* the set was appended to every view
AccessControlOnAllViews ==
    \A view \in Models :
        /\ "acso_after_serialise_object" \in SeqToSet(callbacks[view].after_serialise_object)
        /\ "acso_after_get" \in SeqToSet(callbacks[view].after_get)

\* C27: with the access_control_serialised_objects set appended to all
\* views, no attribute value and no relationship block of a row rejected by
\* allowed_object appears in a successful response document of get,
\* collection_get, related_get or collection_post, neither in primary data
\* nor in included: such a row is only ever the {type, id, meta.errors}
\* placeholder.
C27_RejectedRowsStayHidden ==
    (/\ phase = "done"
     /\ AccessControlOnAllViews
     /\ route.op \in {"get", "collection_get", "related_get", "collection_post"}
     /\ response.status \in {200, 201})
    => \A obj \in AnsweredObjects :
           Rejected(obj.type, obj.id)
           => /\ IsForbiddenPlaceholder(obj)
              /\ "attributes" \notin DOMAIN obj
              /\ "relationships" \notin DOMAIN obj

\* C27 happens: a page of related resources holds a rejected row, created
\* by an earlier collection_post, next to a row that is served in full
C27_Witness ==
    /\ phase = "done"
    /\ AccessControlOnAllViews
    /\ route.op = "related_get"
    /\ response.status = 200
    /\ \E obj \in AnsweredObjects :
           /\ Rejected(obj.type, obj.id)
           /\ IsForbiddenPlaceholder(obj)
    /\ \E obj \in AnsweredObjects :
           /\ ~Rejected(obj.type, obj.id)
           /\ "attributes" \in DOMAIN obj

====
